---- MODULE Spec2Model ----
(***************************************************************************)
(* State machine of the ONDC FIS14 buyer-side adapter (src/ondc/views.py). *)
(* The state is the relational store (one variable per Django model), the  *)
(* request being handled, the HTTP calls that handler made, and its        *)
(* response.  Every action is one HTTP handler, run to completion.         *)
(***************************************************************************)
EXTENDS Integers, Sequences, FiniteSets, TLC

VARIABLES
    Transaction,        \* set of transaction_id (models.Transaction, unique)
    Message,            \* sequence of rows of models.Message (unique message_id)
    FullOnSearch,       \* sequence of rows of models.FullOnSearch
    Scheme,             \* sequence of rows of models.Scheme
    ONDCTransaction,    \* sequence of rows of models.ONDCTransaction
    MutualFundProvider, \* set of rows, unique (provider_id, bpp_id)
    SchemeCategory,     \* set of rows, unique (category_id, provider)
    MutualFundScheme,   \* set of rows, unique (scheme_id, provider)
    SchemePlan,         \* set of rows, unique (plan_id, scheme)
    FulfillmentOption,  \* set of rows, unique (fulfillment_id, plan)
    SelectSIP,          \* sequence of rows of models.SelectSIP   (on_select)
    SubmissionID,       \* sequence of rows of models.SubmissionID
    OnInitSIP,          \* sequence of rows of models.OnInitSIP   (on_init)
    OnConfirm,          \* sequence of rows of models.OnConfirm   (on_confirm)
    OnStatus,           \* sequence of rows of models.OnStatus    (on_status)
    OnUpdate,           \* sequence of rows of models.OnUpdate    (on_update)
    OnCancel,           \* sequence of rows of models.OnCancel    (on_cancel)
    req,                \* the request the last handler ran on
    sent,               \* the HTTP calls that handler made (requests.post)
    resp,               \* the response it returned
    analytics,          \* the analytics service, as the handlers find it
    flow,               \* the thread of the orchestrated SIP flow (completesip)
    pending             \* the form submissions waiting for the form URL's answer

catalogVars ==
    <<FullOnSearch, Scheme, ONDCTransaction, MutualFundProvider, SchemeCategory,
      MutualFundScheme, SchemePlan, FulfillmentOption>>
stageVars == <<SelectSIP, OnInitSIP, OnConfirm, OnStatus, OnUpdate, OnCancel>>
storeVars == <<Transaction, Message, SubmissionID, catalogVars, stageVars>>
vars == <<storeVars, req, sent, resp, analytics, flow, pending>>

---------------------------------------------------------------------------
(* Values *)

\* Python's None, also a key that is absent from a JSON body.
None == "None"
\* A key of a JSON body given the value null.
JSONNull == "null"

\* Bounds of the model.
MaxRows == 2

T1 == "T1"
T2 == "T2"
M1 == "m1"
M2 == "m2"
TransactionIds == {T1, T2}
MessageIds == {M1, M2}

\* Two sellers; a lookup filters on bpp_id and on bpp_uri.
Seller1 == [bpp_id |-> "bpp1.example", bpp_uri |-> "https://bpp1.example/ondc"]
Seller2 == [bpp_id |-> "bpp2.example", bpp_uri |-> "https://bpp2.example/ondc"]
Sellers == {Seller1, Seller2}

\* context.timestamp strings a callback may carry.
TS1 == "2025-01-01T10:00:00Z"
TS1b == "2025-01-01T15:30:00+05:30"
TS2 == "2025-01-02T10:00:00Z"
TSMalformed == "yesterday"
TSInvalidDate == "2025-02-30T10:00:00Z"
ValidTimestamps == {TS1, TS1b, TS2}
Timestamps == ValidTimestamps \cup {TSMalformed, TSInvalidDate}

\* message.order of a callback body.  shape "full": every path the handlers
\* read is present; "no_keys": message.order lacks its top-level keys;
\* "no_nested": the top-level keys are there and "items" is [].
\* person is fulfillments[0].customer.person.id: None when fulfillments[0]
\* has no "customer", EmptyList when "fulfillments" is [].  payment_method
\* is payments[0].tags[0].list[0].value, None when payments[0] has no
\* "tags"; payment_type is payments[0].type, None when payments[0] has no
\* "type"; account_name is payments[1].tags[0].list[4].value, None when the
\* order has a single payment; form_url is xinput.form.url and payment_url
\* is payments[0].url, None when that key is absent.
EmptyList == "[]"
Order(shape, provider, person, payment_method, payment_type) ==
    [shape |-> shape, provider |-> provider, person |-> person,
     payment_method |-> payment_method, payment_type |-> payment_type,
     account_name |-> IF shape = "full" THEN "John" ELSE None,
     form_url |-> IF shape = "no_keys" THEN None ELSE "https://form.example/kyc",
     payment_url |-> IF shape = "no_keys" THEN None ELSE "https://pay.example/1"]
\* The same order with a single payment, without the form URL, without the
\* payment URL.
SinglePayment(order) == [order EXCEPT !.account_name = None]
WithoutFormUrl(order) == [order EXCEPT !.form_url = None]
WithoutPaymentUrl(order) == [order EXCEPT !.payment_url = None]
Context(m, t, ts, a, s) ==
    [message_id |-> m, transaction_id |-> t, timestamp |-> ts, action |-> a,
     bpp_id |-> s.bpp_id, bpp_uri |-> s.bpp_uri]
Callback(ctx, order) == [context |-> ctx, order |-> order]

---------------------------------------------------------------------------
(* Library behaviour the handlers rely on *)

\* The flow thread before any completesip request: not running.  While it
\* runs, pc is the step it is at, transaction_id the id its search
\* generated, bpp_id and bpp_uri the seller of the callback it found last,
\* elapsed the seconds time.time() has advanced since the wait began, and
\* sent the requests it has posted, obj the on_select it read before it
\* posted the form; once it has answered, running is FALSE and the other
\* fields are those it ended with.
NoFlow ==
    [running |-> FALSE, pc |-> "none", preferred_type |-> None,
     transaction_id |-> None, bpp_id |-> None, bpp_uri |-> None,
     elapsed |-> 0, sent |-> <<>>, obj |-> <<>>]

\* Python truthiness of a request field: None and "" are falsy.
Truthy(v) == v # None /\ v # ""

\* django.utils.dateparse.parse_datetime: the instant for a well formed
\* date-time (the same instant whatever the offset it is written in), None
\* (here <<>>) for a string that is not well formed.
parse_datetime(s) ==
    CASE s = TS1 -> <<1>>
      [] s = TS1b -> <<1>>
      [] s = TS2 -> <<2>>
      [] OTHER -> <<>>

\* parse_datetime raises ValueError for a well formed string that is no date.
parse_datetime_raises(s) == s = TSInvalidDate

Range(seq) == {seq[i] : i \in DOMAIN seq}

StageRows ==
    Len(SelectSIP) + Len(OnInitSIP) + Len(OnConfirm) + Len(OnStatus)
        + Len(OnUpdate) + Len(OnCancel)

---------------------------------------------------------------------------
(* Responses *)

\* A response: the HTTP status, the ack of a callback answer, the stored
\* payload a data view returns ("data"), and for an outbound endpoint the
\* "status_code" and "response" entries of its body.
Response(status) ==
    [status |-> status, ack |-> None, data |-> <<>>, status_code |-> <<>>,
     response |-> None]
AckResponse(status) ==
    [Response(status) EXCEPT !.ack = IF status = 200 THEN "ACK" ELSE "NACK"]
DataResponse(payload) == [Response(200) EXCEPT !.data = <<payload>>]
Request(endpoint, body) == [endpoint |-> endpoint, body |-> body]
NoBody == [empty |-> TRUE]

\* What the gateway or a seller answers to requests.post: a status and a body
\* that is JSON, other text, or empty; "unreachable" is the call raising.
Upstream(status, body) == [status |-> status, body |-> body]
UpstreamOK == Upstream(200, "json")
Upstreams ==
    {UpstreamOK, Upstream(200, "empty"), Upstream(400, "json"),
     Upstream(502, "text"), Upstream(0, "unreachable")}

\* One outbound HTTP call: the action, where it goes, and what the body
\* carries (context ids, and the provider id copied from a stored record).
Outbound(action, t, m, bpp_id, bpp_uri, provider) ==
    [action |-> action, transaction_id |-> t, message_id |-> m,
     bpp_id |-> bpp_id, bpp_uri |-> bpp_uri, provider |-> provider]

\* send_to_analytics posts the payload to the analytics service and raises
\* again whatever the post or raise_for_status raised.
send_to_analytics_raises == analytics # "up"

\* The mutant of AfterAnalytics: the call is made outside any try, so what
\* it raises ends the handler.
AfterAnalytics_Unguarded(outcome) ==
    IF send_to_analytics_raises THEN Response(500) ELSE outcome

\* Every handler calls send_to_analytics inside "try ... except Exception",
\* which logs and goes on: the outcome the handler had reached stands.
AfterAnalytics(outcome) ==
    IF send_to_analytics_raises THEN outcome ELSE outcome

---------------------------------------------------------------------------
(* Callback ingestion: on_select, on_init, on_confirm, on_status,          *)
(* on_update, on_cancel                                                    *)

\* The checks every one of the six handlers runs, in the handler's order,
\* and the HTTP status each ends in (200: all passed).
ValidateCallback(context, expected) ==
    IF ~(Truthy(context.message_id) /\ Truthy(context.transaction_id)
            /\ Truthy(context.timestamp) /\ Truthy(context.action))
    THEN 400
    ELSE IF context.action # expected THEN 400
    ELSE IF parse_datetime_raises(context.timestamp) THEN 500
    ELSE IF parse_datetime(context.timestamp) = <<>> THEN 400
    ELSE IF context.transaction_id \notin Transaction THEN 404
    ELSE 200

\* The mutant of StoresRecord: the row is written before the transaction
\* is looked up.
StoresRecord_BeforeTransactionCheck(status) == status \in {200, 404}

\* objects.create is reached only after every check has passed.
StoresRecord(status) == status = 200

\* The row objects.create writes.
StageRow(data) ==
    [transaction |-> data.context.transaction_id,
     message_id |-> data.context.message_id,
     payload |-> data,
     timestamp |-> parse_datetime(data.context.timestamp)[1]]

\* The bound on the stage tables: a callback that would store is handled
\* only while there is room.
Room(status) == StoresRecord(status) => StageRows < MaxRows

\* The mutant of Ingested: the row of the callback replaces the rows stored
\* before it.
Ingested_Replacing(table, data, status) ==
    IF StoresRecord(status) THEN <<StageRow(data)>> ELSE table

Ingested(table, data, status) ==
    IF StoresRecord(status) THEN Append(table, StageRow(data)) ELSE table

\* What a callback handler answers: a callback that passed every check is
\* stored, forwarded to the analytics service, and acknowledged.
CallbackAnswer(status) ==
    IF status = 200 THEN AfterAnalytics(AckResponse(200)) ELSE AckResponse(status)

OnSelectSIPView(data) ==
    LET status == ValidateCallback(data.context, "on_select") IN
    /\ Room(status)
    /\ SelectSIP' = Ingested(SelectSIP, data, status)
    /\ UNCHANGED <<analytics, flow, pending>>
    /\ req' = Request("on_select", data)
    /\ sent' = <<>>
    /\ resp' = CallbackAnswer(status)
    /\ UNCHANGED <<Transaction, Message, SubmissionID, catalogVars,
                   OnInitSIP, OnConfirm, OnStatus, OnUpdate, OnCancel>>

ONINIT(data) ==
    LET status == ValidateCallback(data.context, "on_init") IN
    /\ Room(status)
    /\ OnInitSIP' = Ingested(OnInitSIP, data, status)
    /\ UNCHANGED <<analytics, flow, pending>>
    /\ req' = Request("on_init", data)
    /\ sent' = <<>>
    /\ resp' = CallbackAnswer(status)
    /\ UNCHANGED <<Transaction, Message, SubmissionID, catalogVars,
                   SelectSIP, OnConfirm, OnStatus, OnUpdate, OnCancel>>

OnConfirmSIP(data) ==
    LET status == ValidateCallback(data.context, "on_confirm") IN
    /\ Room(status)
    /\ OnConfirm' = Ingested(OnConfirm, data, status)
    /\ UNCHANGED <<analytics, flow, pending>>
    /\ req' = Request("on_confirm", data)
    /\ sent' = <<>>
    /\ resp' = CallbackAnswer(status)
    /\ UNCHANGED <<Transaction, Message, SubmissionID, catalogVars,
                   SelectSIP, OnInitSIP, OnStatus, OnUpdate, OnCancel>>

\* The customer PAN on_status derives: the person id with its "pan:" prefix
\* split off, None when the id does not start with it.
CustomerPan(person) ==
    CASE person = "pan:ABCDE1234F" -> "ABCDE1234F"
      [] OTHER -> None

\* on_status runs the six handlers' checks, then reads fulfillments[0]: an
\* empty list raises IndexError, which the handler's except answers with 500.
OnStatusOutcome(data) ==
    LET status == ValidateCallback(data.context, "on_status") IN
    IF status = 200 /\ data.order.person = EmptyList THEN 500 ELSE status

OnStatusView(data) ==
    LET status == OnStatusOutcome(data) IN
    /\ Room(status)
    /\ OnStatus' =
         IF StoresRecord(status)
         THEN Append(OnStatus,
                     StageRow(data) @@ [pan |-> CustomerPan(data.order.person)])
         ELSE OnStatus
    /\ UNCHANGED <<analytics, flow, pending>>
    /\ req' = Request("on_status", data)
    /\ sent' = <<>>
    /\ resp' = CallbackAnswer(status)
    /\ UNCHANGED <<Transaction, Message, SubmissionID, catalogVars,
                   SelectSIP, OnInitSIP, OnConfirm, OnUpdate, OnCancel>>

OnUpdateView(data) ==
    LET status == ValidateCallback(data.context, "on_update") IN
    /\ Room(status)
    /\ OnUpdate' = Ingested(OnUpdate, data, status)
    /\ UNCHANGED <<analytics, flow, pending>>
    /\ req' = Request("on_update", data)
    /\ sent' = <<>>
    /\ resp' = CallbackAnswer(status)
    /\ UNCHANGED <<Transaction, Message, SubmissionID, catalogVars,
                   SelectSIP, OnInitSIP, OnConfirm, OnStatus, OnCancel>>

OnCancelView(data) ==
    LET status == ValidateCallback(data.context, "on_cancel") IN
    /\ Room(status)
    /\ OnCancel' = Ingested(OnCancel, data, status)
    /\ UNCHANGED <<analytics, flow, pending>>
    /\ req' = Request("on_cancel", data)
    /\ sent' = <<>>
    /\ resp' = CallbackAnswer(status)
    /\ UNCHANGED <<Transaction, Message, SubmissionID, catalogVars,
                   SelectSIP, OnInitSIP, OnConfirm, OnStatus, OnUpdate>>

---------------------------------------------------------------------------
(* Outbound: search *)

\* uuid.uuid4() values.
Uuids == {"uuid-1", "uuid-2"}

MessageIdsStored == {Message[i].message_id : i \in DOMAIN Message}

\* The row Message.objects.create / get_or_create writes.
MessageRow(t, m, action, payload) ==
    [transaction |-> t, message_id |-> m, action |-> action, payload |-> payload]

\* The body ONDCSearchView returns: the gateway's status, and its body as
\* JSON or, when it does not parse as JSON, as text.
SearchResponse(upstream) ==
    IF upstream.body = "unreachable" THEN Response(500)
    ELSE [Response(upstream.status) EXCEPT
            !.status_code = <<upstream.status>>,
            !.response = IF upstream.body = "json" THEN "json" ELSE "text"]

\* The mutant of ONDCSearchView: the Message is written with create, not
\* get_or_create, and the table has no unique message_id.
ONDCSearchView_AlwaysCreates(transaction_id, message_id, uuid_t, uuid_m, upstream) ==
    LET regenerate == ~(Truthy(transaction_id) /\ Truthy(message_id))
        t == IF regenerate THEN uuid_t ELSE transaction_id
        m == IF regenerate THEN uuid_m ELSE message_id
        payload == Outbound("search", t, m, None, None, None)
    IN
    /\ uuid_t \notin Transaction
    /\ uuid_m \notin MessageIdsStored
    /\ Len(Message) < 4
    /\ Transaction' = Transaction \cup {t}
    /\ Message' = Append(Message, MessageRow(t, m, "search", payload))
    /\ UNCHANGED <<analytics, flow, pending>>
    /\ req' = Request("search",
                      [transaction_id |-> transaction_id, message_id |-> message_id,
                       upstream |-> upstream])
    /\ sent' = <<payload>>
    /\ resp' = AfterAnalytics(SearchResponse(upstream))
    /\ UNCHANGED <<SubmissionID, catalogVars, stageVars>>

\* The mutant of ONDCSearchView: the Message is written once the gateway
\* has been reached.
ONDCSearchView_StoreAfterSend(transaction_id, message_id, uuid_t, uuid_m, upstream) ==
    LET regenerate == ~(Truthy(transaction_id) /\ Truthy(message_id))
        t == IF regenerate THEN uuid_t ELSE transaction_id
        m == IF regenerate THEN uuid_m ELSE message_id
        payload == Outbound("search", t, m, None, None, None)
    IN
    /\ uuid_t \notin Transaction
    /\ uuid_m \notin MessageIdsStored
    /\ Transaction' = Transaction \cup {t}
    /\ Message' =
         IF m \in MessageIdsStored \/ upstream.body = "unreachable" THEN Message
         ELSE Append(Message, MessageRow(t, m, "search", payload))
    /\ UNCHANGED <<analytics, flow, pending>>
    /\ req' = Request("search",
                      [transaction_id |-> transaction_id, message_id |-> message_id,
                       upstream |-> upstream])
    /\ sent' = <<payload>>
    /\ resp' = AfterAnalytics(SearchResponse(upstream))
    /\ UNCHANGED <<SubmissionID, catalogVars, stageVars>>

ONDCSearchView(transaction_id, message_id, uuid_t, uuid_m, upstream) ==
    LET regenerate == ~(Truthy(transaction_id) /\ Truthy(message_id))
        t == IF regenerate THEN uuid_t ELSE transaction_id
        m == IF regenerate THEN uuid_m ELSE message_id
        payload == Outbound("search", t, m, None, None, None)
    IN
    /\ uuid_t \notin Transaction
    /\ uuid_m \notin MessageIdsStored
    /\ Transaction' = Transaction \cup {t}
    /\ Message' =
         IF m \in MessageIdsStored THEN Message
         ELSE Append(Message, MessageRow(t, m, "search", payload))
    /\ UNCHANGED <<analytics, flow, pending>>
    /\ req' = Request("search",
                      [transaction_id |-> transaction_id, message_id |-> message_id,
                       upstream |-> upstream])
    /\ sent' = <<payload>>
    /\ resp' = AfterAnalytics(SearchResponse(upstream))
    /\ UNCHANGED <<SubmissionID, catalogVars, stageVars>>

---------------------------------------------------------------------------
(* Callback ingestion: on_search                                           *)

\* message.catalog of an on_search body: providers, each with its items
\* (schemes and scheme plans) and fulfillments, and the categories.
\* A name of None is a descriptor without "name".
Fulfillment(id, type) == [id |-> id, type |-> type]
Item(id, code, name, parent_item_id, category_ids, fulfillment_ids) ==
    [id |-> id, code |-> code, name |-> name, parent_item_id |-> parent_item_id,
     category_ids |-> category_ids, fulfillment_ids |-> fulfillment_ids]
Provider(id, name, items, fulfillments) ==
    [id |-> id, name |-> name, items |-> items, fulfillments |-> fulfillments]
Category(id, provider_id, parent_category_id, name) ==
    [id |-> id, provider_id |-> provider_id,
     parent_category_id |-> parent_category_id, name |-> name]
Catalog(providers, categories) == [providers |-> providers, categories |-> categories]
OnSearchBody(ctx, catalog) == [context |-> ctx, catalog |-> catalog]

\* The tables the atomic block writes, and whether a statement raised.
CatalogTables ==
    [ok |-> TRUE, providers |-> MutualFundProvider, categories |-> SchemeCategory,
     schemes |-> MutualFundScheme, plans |-> SchemePlan, options |-> FulfillmentOption]

Raised(st) == [st EXCEPT !.ok = FALSE]

\* FulfillmentOption.objects.create for each id of plan_data["fulfillment_ids"]
\* that names a fulfillment of the provider.
RECURSIVE CreateFulfillmentOptions(_, _, _, _)
CreateFulfillmentOptions(fids, fulfillments, plan, st) ==
    IF ~st.ok \/ fids = <<>> THEN st
    ELSE LET found == SelectSeq(fulfillments, LAMBDA f : f.id = Head(fids))
         IN IF found = <<>>
            THEN CreateFulfillmentOptions(Tail(fids), fulfillments, plan, st)
            ELSE LET data == found[Len(found)]
                     row == [fulfillment_id |-> Head(fids), plan |-> plan,
                             fulfillment_type |-> data.type]
                 IN IF \E o \in st.options :
                          o.fulfillment_id = row.fulfillment_id /\ o.plan = row.plan
                    THEN Raised(st)
                    ELSE CreateFulfillmentOptions(Tail(fids), fulfillments, plan,
                             [st EXCEPT !.options = @ \cup {row}])

\* SchemePlan.objects.create for each plan of the scheme.
RECURSIVE CreatePlans(_, _, _, _)
CreatePlans(plans, fulfillments, scheme, st) ==
    IF ~st.ok \/ plans = <<>> THEN st
    ELSE LET plan_data == Head(plans)
             row == [plan_id |-> plan_data.id, scheme |-> scheme, name |-> plan_data.name,
                     isin |-> None]
         IN IF plan_data.name = None
               \/ \E q \in st.plans : q.plan_id = row.plan_id /\ q.scheme = row.scheme
            THEN Raised(st)
            ELSE CreatePlans(Tail(plans), fulfillments, scheme,
                     CreateFulfillmentOptions(plan_data.fulfillment_ids, fulfillments,
                         [plan_id |-> row.plan_id, scheme |-> scheme],
                         [st EXCEPT !.plans = @ \cup {row}]))

\* MutualFundScheme.objects.create for each scheme of the provider: the pair
\* (scheme_id, provider) is unique, a second create of it raises.  The scheme
\* gets the categories of categories_map, the ones this callback carried for
\* the provider.
RECURSIVE CreateSchemes(_, _, _, _, _, _, _)
CreateSchemes(schemes, plans, fulfillments, provider, transaction_id, categories_map, st) ==
    IF ~st.ok \/ schemes = <<>> THEN st
    ELSE LET scheme_data == Head(schemes)
             key == [scheme_id |-> scheme_data.id, provider |-> provider]
             row == [scheme_id |-> scheme_data.id, provider |-> provider,
                     transaction |-> transaction_id, name |-> scheme_data.name,
                     categories |->
                        {c \in scheme_data.category_ids : c \in categories_map}]
         IN IF scheme_data.name = None
               \/ \E q \in st.schemes : q.scheme_id = key.scheme_id /\ q.provider = provider
            THEN Raised(st)
            ELSE CreateSchemes(Tail(schemes), plans, fulfillments, provider, transaction_id,
                     categories_map,
                     CreatePlans(
                         SelectSeq(plans, LAMBDA p : p.parent_item_id = scheme_data.id),
                         fulfillments, key,
                         [st EXCEPT !.schemes = @ \cup {row}]))

\* SchemeCategory.objects.update_or_create for each category of the provider.
RECURSIVE UpdateCategories(_, _, _)
UpdateCategories(categories, provider, st) ==
    IF ~st.ok \/ categories = <<>> THEN st
    ELSE LET cat_data == Head(categories)
             row == [category_id |-> cat_data.id, provider |-> provider,
                     name |-> cat_data.name,
                     parent_category |->
                        IF \E k \in st.categories :
                               k.category_id = cat_data.parent_category_id
                               /\ k.provider = provider
                        THEN cat_data.parent_category_id ELSE None]
         IN IF cat_data.name = None THEN Raised(st)
            ELSE UpdateCategories(Tail(categories), provider,
                     [st EXCEPT !.categories =
                         {k \in @ : ~(k.category_id = row.category_id
                                        /\ k.provider = provider)} \cup {row}])

\* The loop over catalog.providers.  MutualFundProvider.objects
\* .update_or_create raises for a provider without a name and for a bpp_id
\* of None, which matches no row and cannot be inserted (NOT NULL).
RECURSIVE UpdateProviders(_, _, _, _, _)
UpdateProviders(providers, categories, bpp_id, transaction_id, st) ==
    IF ~st.ok \/ providers = <<>> THEN st
    ELSE LET provider_data == Head(providers)
             key == [provider_id |-> provider_data.id, bpp_id |-> bpp_id]
             row == [provider_id |-> provider_data.id, bpp_id |-> bpp_id,
                     name |-> provider_data.name]
             st1 == [st EXCEPT !.providers =
                        {q \in @ : ~(q.provider_id = key.provider_id
                                       /\ q.bpp_id = bpp_id)} \cup {row}]
             provider_categories ==
                 SelectSeq(categories, LAMBDA c : c.provider_id = provider_data.id)
             st2 == UpdateCategories(provider_categories, key, st1)
             categories_map ==
                 {provider_categories[i].id : i \in DOMAIN provider_categories}
             st3 == CreateSchemes(
                        SelectSeq(provider_data.items, LAMBDA i : i.code = "SCHEME"),
                        SelectSeq(provider_data.items, LAMBDA i : i.code = "SCHEME_PLAN"),
                        provider_data.fulfillments, key, transaction_id,
                        categories_map, st2)
         IN IF provider_data.name = None \/ bpp_id = None THEN Raised(st)
            ELSE UpdateProviders(Tail(providers), categories, bpp_id, transaction_id, st3)

\* The checks of on_search and the status each ends in: no check of the
\* action.
ValidateOnSearch(context) ==
    IF ~(Truthy(context.message_id) /\ Truthy(context.transaction_id)
            /\ Truthy(context.timestamp))
    THEN 400
    ELSE IF parse_datetime_raises(context.timestamp) THEN 500
    ELSE IF parse_datetime(context.timestamp) = <<>> THEN 400
    ELSE IF context.transaction_id \notin Transaction THEN 404
    ELSE 200

\* The row ONDCTransaction.objects.get_or_create creates.
ONDCTransactionRow(context) ==
    [transaction_id |-> context.transaction_id, message_id |-> context.message_id,
     bpp_id |-> context.bpp_id, bpp_uri |-> context.bpp_uri,
     action |-> context.action,
     timestamp |-> parse_datetime(context.timestamp)[1]]

\* ONDCTransaction.objects.get_or_create raises: no row of the transaction
\* is stored and the row to insert has no value for a column that is NOT
\* NULL (action, bpp_id, bpp_uri read with context.get).
ONDCTransactionRaises(context) ==
    /\ \A i \in DOMAIN ONDCTransaction :
          ONDCTransaction[i].transaction_id # context.transaction_id
    /\ \/ context.action = None
       \/ context.bpp_id = None
       \/ context.bpp_uri = None

\* ONDCMutualFundService.process_ondc_response on the tables st (with the
\* ONDCTransaction rows in st.transactions): ONDCTransaction.objects.create
\* raises for a transaction_id already stored, for a context key that is
\* absent and for a timestamp that is no date-time; then the providers, the
\* schemes, plans and fulfillment options are written as on_search writes
\* them, the categories being read from the provider, which carries none.
\* Nothing is atomic: what was written before a statement raised stays.
process_ondc_response(ondc_data, st) ==
    LET context == ondc_data.context
    IN IF \/ \E i \in DOMAIN st.transactions :
                st.transactions[i].transaction_id = context.transaction_id
          \/ None \in {context.transaction_id, context.message_id, context.bpp_id,
                       context.bpp_uri, context.action, context.timestamp}
          \/ parse_datetime_raises(context.timestamp)
          \/ parse_datetime(context.timestamp) = <<>>
       THEN Raised(st)
       ELSE UpdateProviders(ondc_data.catalog.providers, <<>>, context.bpp_id,
                context.transaction_id,
                [st EXCEPT !.transactions = Append(@, ONDCTransactionRow(context))])

\* The loop of sync_existing_schemes_to_ondc over Scheme.objects.all(): what
\* processing a payload raises is logged and the loop goes on.
RECURSIVE SyncSchemes(_, _)
SyncSchemes(schemes, st) ==
    IF schemes = <<>> THEN st
    ELSE SyncSchemes(Tail(schemes),
             [process_ondc_response(Head(schemes).payload, st) EXCEPT !.ok = TRUE])

\* ONDCTransactionManager.sync_existing_schemes_to_ondc: the stored Scheme
\* payloads are written to the ONDC tables; it serves no request.
sync_existing_schemes_to_ondc ==
    LET st == SyncSchemes(Scheme, CatalogTables @@ [transactions |-> ONDCTransaction])
    IN
    /\ ONDCTransaction' = st.transactions
    /\ MutualFundProvider' = st.providers
    /\ SchemeCategory' = st.categories
    /\ MutualFundScheme' = st.schemes
    /\ SchemePlan' = st.plans
    /\ FulfillmentOption' = st.options
    /\ UNCHANGED <<Transaction, Message, SubmissionID, FullOnSearch, Scheme, stageVars>>
    /\ UNCHANGED <<req, sent, resp, analytics, flow, pending>>

\* The mutant of OnSearchView: the writes are not inside transaction.atomic,
\* so the rows written before a statement raised stay.
OnSearchView_NoAtomic(data) ==
    LET checked == ValidateOnSearch(data.context)
        written == UpdateProviders(data.catalog.providers, data.catalog.categories,
                                   data.context.bpp_id, data.context.transaction_id,
                                   CatalogTables)
        raised == ONDCTransactionRaises(data.context)
        status == IF checked = 200 /\ (raised \/ ~written.ok) THEN 500 ELSE checked
    IN
    /\ IF checked = 200 /\ ~raised
       THEN /\ ONDCTransaction' =
                 IF \E i \in DOMAIN ONDCTransaction :
                        ONDCTransaction[i].transaction_id = data.context.transaction_id
                 THEN ONDCTransaction
                 ELSE Append(ONDCTransaction, ONDCTransactionRow(data.context))
            /\ MutualFundProvider' = written.providers
            /\ SchemeCategory' = written.categories
            /\ MutualFundScheme' = written.schemes
            /\ SchemePlan' = written.plans
            /\ FulfillmentOption' = written.options
       ELSE UNCHANGED <<ONDCTransaction, MutualFundProvider, SchemeCategory,
                        MutualFundScheme, SchemePlan, FulfillmentOption>>
    /\ UNCHANGED <<analytics, flow, pending>>
    /\ req' = Request("on_search", data)
    /\ sent' = <<>>
    /\ resp' = CallbackAnswer(status)
    /\ UNCHANGED <<Transaction, Message, SubmissionID, FullOnSearch, Scheme, stageVars>>

OnSearchView(data) ==
    LET checked == ValidateOnSearch(data.context)
        written == UpdateProviders(data.catalog.providers, data.catalog.categories,
                                   data.context.bpp_id, data.context.transaction_id,
                                   CatalogTables)
        raised == ONDCTransactionRaises(data.context)
        status == IF checked = 200 /\ (raised \/ ~written.ok) THEN 500 ELSE checked
    IN
    /\ IF status = 200
       THEN /\ ONDCTransaction' =
                 IF \E i \in DOMAIN ONDCTransaction :
                        ONDCTransaction[i].transaction_id = data.context.transaction_id
                 THEN ONDCTransaction
                 ELSE Append(ONDCTransaction, ONDCTransactionRow(data.context))
            /\ MutualFundProvider' = written.providers
            /\ SchemeCategory' = written.categories
            /\ MutualFundScheme' = written.schemes
            /\ SchemePlan' = written.plans
            /\ FulfillmentOption' = written.options
       ELSE UNCHANGED <<ONDCTransaction, MutualFundProvider, SchemeCategory,
                        MutualFundScheme, SchemePlan, FulfillmentOption>>
    /\ UNCHANGED <<analytics, flow, pending>>
    /\ req' = Request("on_search", data)
    /\ sent' = <<>>
    /\ resp' = CallbackAnswer(status)
    /\ UNCHANGED <<Transaction, Message, SubmissionID, FullOnSearch, Scheme, stageVars>>

---------------------------------------------------------------------------
(* Outbound: SIP select                                                    *)

IsLeap(y) == (y % 4 = 0 /\ y % 100 # 0) \/ y % 400 = 0
DaysInMonth(y, m) ==
    IF m = 2 THEN (IF IsLeap(y) THEN 29 ELSE 28)
    ELSE IF m \in {4, 6, 9, 11} THEN 30 ELSE 31

Frequencies == {"daily", "weekly", "monthly", "quarterly", "yearly"}
\* The mutant of freq_map: every frequency is taken for a monthly one.
freq_map_Monthly(frequency) == "P1M"

freq_map(frequency) ==
    CASE frequency = "daily" -> "P1D"
      [] frequency = "weekly" -> "P1W"
      [] frequency = "monthly" -> "P1M"
      [] frequency = "quarterly" -> "P3M"
      [] frequency = "yearly" -> "P1Y"

\* The day number of a request without "date": None, which date() refuses
\* with TypeError.
NoDay == -1

\* date.isoformat(): YYYY-MM-DD, the month and the day on two digits (the
\* years of the model have four).
TwoDigits(n) == IF n < 10 THEN "0" \o ToString(n) ELSE ToString(n)
isoformat(year, month, day) ==
    ToString(year) \o "-" \o TwoDigits(month) \o "-" \o TwoDigits(day)

\* utils.build_frequency: the string "R{repeat}/{start_date}/{duration}", or
\* the exception it raises.  today is date.today() as <<year, month>>.
build_frequency(frequency, repeat, day_number, today) ==
    IF frequency \notin Frequencies
    THEN [raised |-> "ValueError", value |-> <<>>]
    ELSE IF day_number = NoDay
    THEN [raised |-> "TypeError", value |-> <<>>]
    ELSE IF day_number < 1 \/ day_number > DaysInMonth(today[1], today[2])
    THEN [raised |-> "ValueError", value |-> <<>>]
    ELSE [raised |-> None,
          value |-> "R" \o ToString(repeat) \o "/"
                        \o isoformat(today[1], today[2], day_number) \o "/"
                        \o freq_map(frequency)]

\* Rows a lookup by (transaction, bpp_id, bpp_uri) matches.
BySeller(table, transaction_id, bpp_id, bpp_uri) ==
    {i \in DOMAIN table :
        /\ table[i].transaction = transaction_id
        /\ table[i].payload.context.bpp_id = bpp_id
        /\ table[i].payload.context.bpp_uri = bpp_uri}

\* The status SIPCreationView ends in before it stores and sends anything
\* (200: it goes on to send).
SIPCreationChecks(body, m, today) ==
    LET found == BySeller(FullOnSearch, body.transaction_id, body.bpp_id, body.bpp_uri)
    IN
    IF ~(Truthy(body.transaction_id) /\ Truthy(body.bpp_id) /\ Truthy(body.bpp_uri))
    THEN 400
    ELSE IF found = {} THEN 404
    ELSE IF Cardinality(found) > 1 THEN 500
    ELSE LET obj == FullOnSearch[CHOOSE i \in found : TRUE]
             providers == obj.payload.catalog.providers
         IN IF providers = <<>> THEN 500
            ELSE IF SelectSeq(providers[1].fulfillments, LAMBDA f : f.type = "SIP") = <<>>
            THEN 404
            ELSE IF providers[1].items = <<>> THEN 500
            ELSE IF body.pan = None THEN 500
            ELSE IF build_frequency(body.frequency, body.repeat, body.date, today).raised
                        # None
            THEN 500
            ELSE IF m \in MessageIdsStored THEN 500
            ELSE 200

\* The select request SIPCreationView builds from the stored on_search.
SelectPayload(body, m, today) ==
    LET found == BySeller(FullOnSearch, body.transaction_id, body.bpp_id, body.bpp_uri)
        provider == FullOnSearch[CHOOSE i \in found : TRUE].payload.catalog.providers[1]
        matching_fulfillment ==
            SelectSeq(provider.fulfillments, LAMBDA f : f.type = "SIP")[1]
    IN Outbound("select", body.transaction_id, m, body.bpp_id, body.bpp_uri, provider.id)
        @@ [item |-> provider.items[1].id,
            fulfillment |-> matching_fulfillment.id,
            person |-> <<"pan:", body.pan>>,
            frequency |->
                build_frequency(body.frequency, body.repeat, body.date, today).value]

\* What an outbound endpoint answers once the seller has replied: HTTP 200
\* with the seller's status inside; an unhandled exception (the call failing,
\* a body that is not JSON) is HTTP 500.
Relayed(upstream) ==
    IF upstream.body \in {"unreachable", "text"} THEN Response(500)
    ELSE [Response(200) EXCEPT
            !.status_code = <<upstream.status>>,
            !.response = IF upstream.body = "json" THEN "json" ELSE "{}"]

SIPCreationView(body, uuid, today, upstream) ==
    LET m == IF Truthy(body.message_id) THEN body.message_id ELSE uuid
        status == SIPCreationChecks(body, m, today)
    IN
    /\ uuid \notin MessageIdsStored
    /\ UNCHANGED <<analytics, flow, pending>>
    /\ req' = Request("sip_select", body @@ [upstream |-> upstream])
    /\ IF status = 200
       THEN /\ Message' = Append(Message,
                    MessageRow(body.transaction_id, m, "select",
                               SelectPayload(body, m, today)))
            /\ sent' = <<SelectPayload(body, m, today)>>
            /\ resp' = AfterAnalytics(Relayed(upstream))
       ELSE /\ UNCHANGED Message
            /\ sent' = <<>>
            /\ resp' = Response(status)
    /\ UNCHANGED <<Transaction, SubmissionID, catalogVars, stageVars>>

\* item.fulfillment_ids of every item, in the order the generator of
\* RedemptionSelect walks them.
RECURSIVE FulfillmentIdsOf(_)
FulfillmentIdsOf(items) ==
    IF items = <<>> THEN <<>>
    ELSE Head(items).fulfillment_ids \o FulfillmentIdsOf(Tail(items))

\* fulfillment_type_map.get(fid): the type of the last fulfillment of that
\* id, None when there is none.
fulfillment_type_map(fulfillments, fid) ==
    LET found == SelectSeq(fulfillments, LAMBDA f : f.id = fid)
    IN IF found = <<>> THEN None ELSE found[Len(found)].type

\* The first fulfillment id of an item that names a fulfillment of the
\* preferred type, None when no item names one.
matching_fulfillment_id(provider, preferred_type) ==
    LET ids == SelectSeq(FulfillmentIdsOf(provider.items),
                   LAMBDA fid :
                       fulfillment_type_map(provider.fulfillments, fid) = preferred_type)
    IN IF ids = <<>> THEN None ELSE ids[1]

\* The status RedemptionSelect ends in before it sends anything (200: it
\* goes on to send).
RedemptionSelectChecks(body) ==
    LET found == BySeller(FullOnSearch, body.transaction_id, body.bpp_id, body.bpp_uri)
    IN
    IF ~(Truthy(body.transaction_id) /\ Truthy(body.bpp_id) /\ Truthy(body.bpp_uri))
    THEN 400
    ELSE IF found = {} THEN 404
    ELSE IF Cardinality(found) > 1 THEN 500
    ELSE LET obj == FullOnSearch[CHOOSE i \in found : TRUE]
             providers == obj.payload.catalog.providers
         IN IF providers = <<>> THEN 500
            ELSE IF SelectSeq(providers[1].fulfillments,
                              LAMBDA f : f.type = "REDEMPTION") = <<>>
            THEN 404
            ELSE IF providers[1].items = <<>> THEN 500
            ELSE IF body.pan = None THEN 500
            ELSE 200

\* The select request RedemptionSelect builds from the stored on_search.
RedemptionSelectPayload(body, m) ==
    LET found == BySeller(FullOnSearch, body.transaction_id, body.bpp_id, body.bpp_uri)
        provider == FullOnSearch[CHOOSE i \in found : TRUE].payload.catalog.providers[1]
        matching_fulfillment ==
            SelectSeq(provider.fulfillments, LAMBDA f : f.type = "REDEMPTION")[1]
    IN Outbound("select", body.transaction_id, m, body.bpp_id, body.bpp_uri, provider.id)
        @@ [item |-> provider.items[1].id,
            fulfillment_ids |-> <<matching_fulfillment_id(provider, "REDEMPTION")>>,
            fulfillment |-> matching_fulfillment.id,
            person |-> <<"pan:", body.pan>>,
            folio |-> body.folio]

\* RedemptionSelect stores nothing: neither a Transaction nor a Message.
RedemptionSelect(body, uuid, upstream) ==
    LET m == IF Truthy(body.message_id) THEN body.message_id ELSE uuid
        status == RedemptionSelectChecks(body)
    IN
    /\ UNCHANGED <<analytics, flow, pending>>
    /\ req' = Request("redemption_select", body @@ [upstream |-> upstream])
    /\ IF status = 200
       THEN /\ sent' = <<RedemptionSelectPayload(body, m)>>
            /\ resp' = AfterAnalytics(Relayed(upstream))
       ELSE /\ sent' = <<>>
            /\ resp' = Response(status)
    /\ UNCHANGED storeVars

---------------------------------------------------------------------------
(* Outbound: lumpsum select                                                *)

\* float(amount) of the amounts a request may carry: None is refused with
\* TypeError, other text with ValueError.
NumericAmounts == {"3000"}

\* Lumpsum.get_scheme_plan_from_ondc_models: the plan of that ISIN of an
\* active scheme of the seller with a fulfillment option of the preferred
\* type; <<>> is None (no plan, several plans, no such option, or an
\* exception, all of which the method answers with None).  on_search leaves
\* amount_min and amount_max empty, so no amount is out of range.
get_scheme_plan_from_ondc_models(isin, bpp_id, preferred, amount) ==
    LET plans == {p \in SchemePlan : p.isin = isin /\ p.scheme.provider.bpp_id = bpp_id}
    IN IF Cardinality(plans) # 1 THEN {}
       ELSE LET scheme_plan == CHOOSE p \in plans : TRUE
                options == {o \in FulfillmentOption :
                               /\ o.plan.plan_id = scheme_plan.plan_id
                               /\ o.plan.scheme = scheme_plan.scheme
                               /\ o.fulfillment_type = preferred}
            IN IF amount \notin NumericAmounts THEN {}
               ELSE {[provider_id |-> scheme_plan.scheme.provider.provider_id,
                      plan_id |-> scheme_plan.plan_id,
                      fulfillment_id |-> o.fulfillment_id,
                      raises |-> FALSE] : o \in options}

\* Lumpsum.get_scheme_plan_from_existing_model: the Scheme row of that ISIN,
\* the first provider of its payload and that provider's first fulfillment
\* of the preferred type; every exception is answered with None.  The ids
\* are those build_select_payload reads, which raises when the provider has
\* no item.
get_scheme_plan_from_existing_model(isin, preferred) ==
    LET found == {i \in DOMAIN Scheme : Scheme[i].isin = isin}
    IN IF Cardinality(found) # 1 THEN {}
       ELSE LET providers == Scheme[CHOOSE i \in found : TRUE].payload.catalog.providers
            IN IF providers = <<>> THEN {}
               ELSE LET provider == providers[1]
                        matching == SelectSeq(provider.fulfillments,
                                              LAMBDA f : f.type = preferred)
                    IN IF matching = <<>> THEN {}
                       ELSE {[provider_id |-> provider.id,
                              plan_id |-> IF Len(provider.items) > 1
                                          THEN provider.items[2].id
                                          ELSE IF provider.items = <<>> THEN None
                                          ELSE provider.items[1].id,
                              fulfillment_id |-> matching[1].id,
                              raises |-> provider.items = <<>>]}

\* The select request Lumpsum.build_select_payload builds.
LumpsumPayload(scheme_plan, t, m, body) ==
    Outbound("select", t, m, body.bpp_id, body.bpp_uri, scheme_plan.provider_id)
        @@ [item |-> scheme_plan.plan_id,
            fulfillment |-> scheme_plan.fulfillment_id,
            person |-> <<"pan:", body.pan>>,
            amount |-> body.amount]

\* Lumpsum.post: amount and pan are read with the defaults "3000" and
\* "ABCDE1234F" for an absent key, a null stays null (and the payload's
\* "pan:" + pan raises); the scheme is looked up by ISIN, first in the tables
\* on_search fills, then in Scheme; the request's transaction and message
\* ids are generated when absent; an ONDCTransaction, a Transaction and a
\* Message are written; the select is sent.
Lumpsum(body, uuid_t, uuid_m, now, upstream) ==
    LET amount == IF body.amount = None THEN "3000" ELSE body.amount
        pan == IF body.pan = None THEN "ABCDE1234F" ELSE body.pan
        given == [body EXCEPT !.amount = amount, !.pan = pan]
        ondc == get_scheme_plan_from_ondc_models(body.isin, body.bpp_id, "LUMPSUM",
                                                 amount)
        plans == IF ondc # {} THEN ondc
                 ELSE get_scheme_plan_from_existing_model(body.isin, "LUMPSUM")
        t == IF Truthy(body.transaction_id) THEN body.transaction_id ELSE uuid_t
        m == IF Truthy(body.message_id) THEN body.message_id ELSE uuid_m
        seller == [bpp_id |-> body.bpp_id, bpp_uri |-> body.bpp_uri]
    IN
    /\ uuid_t \notin Transaction
    /\ uuid_m \notin MessageIdsStored
    /\ UNCHANGED <<analytics, flow, pending>>
    /\ req' = Request("lumpsum_select", body @@ [upstream |-> upstream])
    /\ IF ~(Truthy(body.bpp_id) /\ Truthy(body.bpp_uri) /\ Truthy(body.isin))
       THEN /\ sent' = <<>> /\ resp' = Response(400)
            /\ UNCHANGED <<Transaction, Message, ONDCTransaction>>
       ELSE IF plans = {}
       THEN /\ sent' = <<>> /\ resp' = Response(404)
            /\ UNCHANGED <<Transaction, Message, ONDCTransaction>>
       ELSE \E scheme_plan \in plans :
            /\ ONDCTransaction' =
                 IF \E i \in DOMAIN ONDCTransaction :
                        ONDCTransaction[i].transaction_id = t
                 THEN ONDCTransaction
                 ELSE Append(ONDCTransaction,
                             ONDCTransactionRow(Context(m, t, now, "select", seller)))
            /\ IF scheme_plan.raises \/ pan = JSONNull
               THEN /\ sent' = <<>> /\ resp' = Response(500)
                    /\ UNCHANGED <<Transaction, Message>>
               ELSE /\ Transaction' = Transaction \cup {t}
                    /\ Message' =
                         IF m \in MessageIdsStored THEN Message
                         ELSE Append(Message,
                                 MessageRow(t, m, "select",
                                            LumpsumPayload(scheme_plan, t, m, given)))
                    /\ sent' = <<LumpsumPayload(scheme_plan, t, m, given)>>
                    /\ resp' = AfterAnalytics(Relayed(upstream))
    /\ UNCHANGED <<SubmissionID, FullOnSearch, Scheme, MutualFundProvider,
                   SchemeCategory, MutualFundScheme, SchemePlan, FulfillmentOption,
                   stageVars>>

---------------------------------------------------------------------------
(* Outbound: the steps built from a stored callback                        *)

\* The mutant of BySellerAndMessage: the message id is not part of the key.
BySellerAnyMessage(table, transaction_id, bpp_id, bpp_uri, message_id) ==
    BySeller(table, transaction_id, bpp_id, bpp_uri)

\* Rows a lookup by (transaction, bpp_id, bpp_uri, context.message_id) matches.
BySellerAndMessage(table, transaction_id, bpp_id, bpp_uri, message_id) ==
    {i \in BySeller(table, transaction_id, bpp_id, bpp_uri) :
        table[i].payload.context.message_id = message_id}

\* Rows of a transaction.
ByTransaction(table, transaction_id) ==
    {i \in DOMAIN table : table[i].transaction = transaction_id}

\* get_object_or_404 over the rows a filter matches: 404 for none, an
\* unhandled MultipleObjectsReturned for several.
get_object_or_404(table, found) ==
    IF found = {} THEN [status |-> 404, obj |-> <<>>]
    ELSE IF Cardinality(found) > 1 THEN [status |-> 500, obj |-> <<>>]
    ELSE [status |-> 200, obj |-> <<table[CHOOSE i \in found : TRUE]>>]

\* The paths of the stored order a handler copies while it builds its
\* request, outside any try, and what the read of each gives (None: the
\* read raises KeyError or IndexError).
ItemPath == "items[0]"
PersonPath == "fulfillments[0].customer.person.id"
TypePath == "payments[0].type"
MethodPath == "payments[0].tags[0].list[0].value"
AccountNamePath == "payments[1].tags[0].list[4].value"
OrderRead(order, path) ==
    CASE path = ItemPath -> IF order.shape = "no_nested" THEN None ELSE "item"
      [] path = PersonPath -> IF order.person = EmptyList THEN None ELSE order.person
      [] path = TypePath -> order.payment_type
      [] path = MethodPath -> order.payment_method
      [] path = AccountNamePath -> order.account_name

\* The paths every request built from a stored order copies.
OrderReads == {ItemPath, PersonPath}

\* Building a request from message.order of the stored payload: a missing
\* top-level key is answered 400; a missing path among those the handler
\* reads is an unhandled KeyError / IndexError.
OrderStatus(order, reads) ==
    IF order.shape = "no_keys" THEN 400
    ELSE IF \E path \in reads : OrderRead(order, path) = None THEN 500
    ELSE 200

\* The status of a step with the lookup result found, before it sends.
StepStatus(required, found, reads) ==
    IF ~required THEN 400
    ELSE IF found.status # 200 THEN found.status
    ELSE OrderStatus(found.obj[1].payload.order, reads)

\* The request a step builds: the ids of the caller's body and the provider
\* of the stored payload.
StepPayload(action, body, uuid, obj) ==
    Outbound(action, body.transaction_id,
             IF Truthy(body.message_id) THEN body.message_id ELSE uuid,
             body.bpp_id, body.bpp_uri, obj.payload.order.provider)

\* A step that looks one record up, builds its request from it, sends it to
\* {bpp_uri}/<action> and relays the answer; it stores nothing.
SendFromRecord(endpoint, action, body, required, found, reads, uuid, upstream) ==
    LET status == StepStatus(required, found, reads)
    IN
    /\ UNCHANGED <<analytics, flow, pending>>
    /\ req' = Request(endpoint, body @@ [upstream |-> upstream])
    /\ IF status = 200
       THEN /\ sent' = <<StepPayload(action, body, uuid, found.obj[1])>>
            /\ resp' = AfterAnalytics(Relayed(upstream))
       ELSE /\ sent' = <<>>
            /\ resp' = Response(status)
    /\ UNCHANGED storeVars

INIT(body, uuid, upstream) ==
    SendFromRecord("init", "init", body,
        Truthy(body.transaction_id) /\ Truthy(body.bpp_id) /\ Truthy(body.bpp_uri)
            /\ Truthy(body.message_id_select),
        get_object_or_404(SelectSIP,
            BySellerAndMessage(SelectSIP, body.transaction_id, body.bpp_id,
                               body.bpp_uri, body.message_id_select)),
        OrderReads \cup {TypePath}, uuid, upstream)

LumpINIT(body, uuid, upstream) ==
    SendFromRecord("lump_init", "init", body,
        Truthy(body.transaction_id) /\ Truthy(body.bpp_id) /\ Truthy(body.bpp_uri)
            /\ Truthy(body.message_id_select),
        get_object_or_404(SelectSIP,
            BySellerAndMessage(SelectSIP, body.transaction_id, body.bpp_id,
                               body.bpp_uri, body.message_id_select)),
        OrderReads \cup {TypePath}, uuid, upstream)

SIPExixstingInit(body, uuid, upstream) ==
    SendFromRecord("existing_init", "init", body,
        Truthy(body.transaction_id) /\ Truthy(body.bpp_id) /\ Truthy(body.bpp_uri)
            /\ Truthy(body.message_id),
        get_object_or_404(SelectSIP,
            BySeller(SelectSIP, body.transaction_id, body.bpp_id, body.bpp_uri)),
        OrderReads \cup {TypePath, AccountNamePath}, uuid, upstream)

\* The init of a payment retry: keyed by the seller alone; the caller's
\* message_id is required, and the request carries a fresh one
\* (message_id_init) in its place.
LumpRetryInit(body, uuid, upstream) ==
    LET found == get_object_or_404(SelectSIP,
                    BySeller(SelectSIP, body.transaction_id, body.bpp_id, body.bpp_uri))
        status == StepStatus(Truthy(body.transaction_id) /\ Truthy(body.bpp_id)
                                /\ Truthy(body.bpp_uri) /\ Truthy(body.message_id),
                             found, OrderReads \cup {TypePath, MethodPath})
    IN
    /\ UNCHANGED <<analytics, flow, pending>>
    /\ req' = Request("retry_init", body @@ [upstream |-> upstream])
    /\ IF status = 200
       THEN /\ sent' = <<Outbound("init", body.transaction_id, uuid, body.bpp_id,
                                  body.bpp_uri, found.obj[1].payload.order.provider)>>
            /\ resp' = AfterAnalytics(Relayed(upstream))
       ELSE /\ sent' = <<>>
            /\ resp' = Response(status)
    /\ UNCHANGED storeVars

RedemptionInit(body, uuid, upstream) ==
    SendFromRecord("redemption_init", "init", body,
        Truthy(body.transaction_id) /\ Truthy(body.bpp_id) /\ Truthy(body.bpp_uri),
        get_object_or_404(SelectSIP,
            BySeller(SelectSIP, body.transaction_id, body.bpp_id, body.bpp_uri)),
        OrderReads, uuid, upstream)

\* payment type ConfirmSIP derives from the payment method of the on_init.
PaymentType(payment_method) ==
    CASE payment_method = "MANDATE_REGISTRATION" -> "PRE_FULFILLMENT"
      [] payment_method = "UPI_ON_DELIVERY" -> "ON_FULFILLMENT"
      [] OTHER -> "POST_FULFILLMENT"

ConfirmSIP(body, uuid, upstream) ==
    LET required == Truthy(body.transaction_id) /\ Truthy(body.bpp_id)
                        /\ Truthy(body.bpp_uri) /\ Truthy(body.message_id_init)
        found == get_object_or_404(OnInitSIP,
                    BySellerAndMessage(OnInitSIP, body.transaction_id, body.bpp_id,
                                       body.bpp_uri, body.message_id_init))
        status == IF ~required THEN 400
                  ELSE IF found.status # 200 THEN found.status
                  ELSE IF found.obj[1].payload.order.shape = "no_keys" THEN 400
                  ELSE IF found.obj[1].payload.order.payment_method = None THEN 400
                  ELSE OrderStatus(found.obj[1].payload.order, OrderReads)
    IN
    /\ UNCHANGED <<analytics, flow, pending>>
    /\ req' = Request("confirm", body @@ [upstream |-> upstream])
    /\ IF status = 200
       THEN /\ sent' = <<StepPayload("confirm", body, uuid, found.obj[1])
                            @@ [payment_type |->
                                  PaymentType(found.obj[1].payload.order.payment_method),
                                payment_method |->
                                  found.obj[1].payload.order.payment_method]>>
            /\ resp' = AfterAnalytics(Relayed(upstream))
       ELSE /\ sent' = <<>>
            /\ resp' = Response(status)
    /\ UNCHANGED storeVars

\* The confirm of a lumpsum purchase: keyed like ConfirmSIP; payments[0].url
\* is read with the top-level keys, under "except KeyError / TypeError"
\* (400); the payment type of its payment block is the literal
\* "PRE_FULFILLMENT", and the payment method tag is read while the request
\* is built.
ConfirmLump(body, uuid, upstream) ==
    LET required == Truthy(body.transaction_id) /\ Truthy(body.bpp_id)
                        /\ Truthy(body.bpp_uri) /\ Truthy(body.message_id_init)
        found == get_object_or_404(OnInitSIP,
                    BySellerAndMessage(OnInitSIP, body.transaction_id, body.bpp_id,
                                       body.bpp_uri, body.message_id_init))
        status == IF ~required THEN 400
                  ELSE IF found.status # 200 THEN found.status
                  ELSE IF found.obj[1].payload.order.shape = "no_keys" THEN 400
                  ELSE IF found.obj[1].payload.order.payment_url = None THEN 400
                  ELSE OrderStatus(found.obj[1].payload.order, OrderReads \cup {MethodPath})
    IN
    /\ UNCHANGED <<analytics, flow, pending>>
    /\ req' = Request("lump_confirm", body @@ [upstream |-> upstream])
    /\ IF status = 200
       THEN /\ sent' = <<StepPayload("confirm", body, uuid, found.obj[1])
                            @@ [payment_type |-> "PRE_FULFILLMENT",
                                payment_method |->
                                  found.obj[1].payload.order.payment_method]>>
            /\ resp' = AfterAnalytics(Relayed(upstream))
       ELSE /\ sent' = <<>>
            /\ resp' = Response(status)
    /\ UNCHANGED storeVars

\* A confirm keyed by the seller alone: the payment block copies the type
\* and the method of the stored on_init.  message_id is the id the request
\* carries: the caller's, or for the payment retry always a fresh one.
ConfirmBySeller(endpoint, body, required, m, upstream) ==
    LET found == get_object_or_404(OnInitSIP,
                    BySeller(OnInitSIP, body.transaction_id, body.bpp_id, body.bpp_uri))
        status == IF ~required THEN 400
                  ELSE IF found.status # 200 THEN found.status
                  ELSE IF found.obj[1].payload.order.shape = "no_keys" THEN 400
                  ELSE OrderStatus(found.obj[1].payload.order,
                                   OrderReads \cup {MethodPath, TypePath})
    IN
    /\ UNCHANGED <<analytics, flow, pending>>
    /\ req' = Request(endpoint, body @@ [upstream |-> upstream])
    /\ IF status = 200
       THEN /\ sent' = <<Outbound("confirm", body.transaction_id, m, body.bpp_id,
                                  body.bpp_uri, found.obj[1].payload.order.provider)
                            @@ [payment_type |-> found.obj[1].payload.order.payment_type,
                                payment_method |->
                                  found.obj[1].payload.order.payment_method]>>
            /\ resp' = AfterAnalytics(Relayed(upstream))
       ELSE /\ sent' = <<>>
            /\ resp' = Response(status)
    /\ UNCHANGED storeVars

SIPExistingConfirm(body, uuid, upstream) ==
    ConfirmBySeller("existing_confirm", body,
        Truthy(body.transaction_id) /\ Truthy(body.bpp_id) /\ Truthy(body.bpp_uri)
            /\ Truthy(body.message_id),
        body.message_id, upstream)

LumpRetryConfirm(body, uuid, upstream) ==
    ConfirmBySeller("retry_confirm", body,
        Truthy(body.transaction_id) /\ Truthy(body.bpp_id) /\ Truthy(body.bpp_uri)
            /\ Truthy(body.message_id),
        uuid, upstream)

\* The confirm of a redemption: keyed by the seller alone, no payment block.
RedemptionConfirm(body, uuid, upstream) ==
    SendFromRecord("redemption_confirm", "confirm", body,
        Truthy(body.transaction_id) /\ Truthy(body.bpp_id) /\ Truthy(body.bpp_uri),
        get_object_or_404(OnInitSIP,
            BySeller(OnInitSIP, body.transaction_id, body.bpp_id, body.bpp_uri)),
        OrderReads, uuid, upstream)

\* The payment block a payment-retry update carries: collected_by, params,
\* type and the payment-method tag of payments[0] of the stored order.
UpdatePayments(order) ==
    <<[type |-> order.payment_type, payment_method |-> order.payment_method]>>

\* The payment-retry update: the on_update of the seller is looked up
\* outside any try (none: 404, several: an unhandled
\* MultipleObjectsReturned); the top-level keys of its order are read under
\* "except KeyError / TypeError" (400), the payment block is copied while
\* the request is built (a missing path is unhandled).  Nothing is stored.
LumpRetryUpdate(body, uuid, upstream) ==
    LET required == Truthy(body.transaction_id) /\ Truthy(body.bpp_id)
                        /\ Truthy(body.bpp_uri)
        found == get_object_or_404(OnUpdate,
                    BySeller(OnUpdate, body.transaction_id, body.bpp_id, body.bpp_uri))
        status == IF ~required THEN 400
                  ELSE IF found.status # 200 THEN found.status
                  ELSE IF found.obj[1].payload.order.shape = "no_keys" THEN 400
                  ELSE OrderStatus(found.obj[1].payload.order, {MethodPath, TypePath})
    IN
    /\ UNCHANGED <<analytics, flow, pending>>
    /\ req' = Request("retry_update", body @@ [upstream |-> upstream])
    /\ IF status = 200
       THEN /\ sent' = <<[action |-> "update",
                          transaction_id |-> body.transaction_id,
                          message_id |-> IF Truthy(body.message_id)
                                         THEN body.message_id ELSE uuid,
                          bpp_id |-> body.bpp_id, bpp_uri |-> body.bpp_uri,
                          update_target |-> "order.payments",
                          payments |-> UpdatePayments(found.obj[1].payload.order)]>>
            /\ resp' = AfterAnalytics(Relayed(upstream))
       ELSE /\ sent' = <<>>
            /\ resp' = Response(status)
    /\ UNCHANGED storeVars

---------------------------------------------------------------------------
(* Outbound: form submission                                               *)

\* What the seller's form URL answers: the status, whether the body is JSON,
\* and the "submission_id" of the JSON (None: the key is absent).
Form(status, body, submission_id) ==
    [status |-> status, body |-> body, submission_id |-> submission_id]
FormOK == Form(200, "json", "sub-1")
Forms ==
    {FormOK, Form(200, "json", ""), Form(200, "json", None),
     Form(422, "json", None), Form(0, "unreachable", None)}

\* The form URL before it was called: a handler that returned before its
\* post to the form URL, and the seller it then never called either.
NotCalled == Form(0, "not_called", None)

\* The statuses a form submission can end in before it posts to the form
\* URL (200: the on_select was found and holds the form URL; the top-level
\* keys and xinput.form.url are read under "except KeyError / TypeError").
FormLookupStatus(required, found) ==
    IF ~required THEN 400
    ELSE IF found.status # 200 THEN found.status
    ELSE IF found.obj[1].payload.order.shape = "no_keys" THEN 400
    ELSE IF found.obj[1].payload.order.form_url = None THEN 400
    ELSE 200

\* The mutant of FormStatus: the empty submission id is not checked for.
FormStatus_EmptyIdAccepted(form) ==
    IF form.body = "unreachable" THEN 400
    ELSE IF form.status # 200 THEN 400
    ELSE IF form.submission_id = None THEN 500
    ELSE 200

\* The statuses a form submission can end in once the form URL has answered,
\* before it writes anything (200: the submission id was obtained).
FormStatus(form) ==
    IF form.body = "unreachable" THEN 400
    ELSE IF form.status # 200 THEN 400
    ELSE IF form.submission_id = None THEN 500
    ELSE IF form.submission_id = "" THEN 400
    ELSE 200

\* A form submission blocked in requests.post(url, json=form_data): the
\* handler it runs, the request's body, the id uuid4 would give, and the
\* on_select it read before the post.
FormThread(endpoint, body, uuid, obj) ==
    [endpoint |-> endpoint, body |-> body, uuid |-> uuid, obj |-> obj]

\* A form submission from the request to its post to the form URL: the
\* fields are checked and the on_select of the transaction and seller is
\* looked up; the handler returns at once on a failure and otherwise posts
\* the form and waits for the answer.
FormPosted(endpoint, body, uuid) ==
    LET found == get_object_or_404(SelectSIP,
                    BySeller(SelectSIP, body.transaction_id, body.bpp_id, body.bpp_uri))
        status == FormLookupStatus(Truthy(body.transaction_id) /\ Truthy(body.bpp_id)
                                      /\ Truthy(body.bpp_uri), found)
        thread == FormThread(endpoint, body, uuid, found.obj[1])
    IN
    /\ UNCHANGED <<analytics, flow>>
    /\ IF status = 200
       THEN /\ thread \notin pending
            /\ Len(SubmissionID) + Cardinality(pending) < MaxRows
            /\ pending' = pending \cup {thread}
            /\ UNCHANGED <<req, sent, resp>>
       ELSE /\ UNCHANGED pending
            /\ req' = Request(endpoint, body @@ [form |-> NotCalled,
                                                 upstream |-> NotCalled])
            /\ sent' = <<>>
            /\ resp' = Response(status)
    /\ UNCHANGED storeVars

\* The 400 a handler answers to a form URL that answered another status
\* than 200: FormSubmisssion reports that status in "status_code",
\* LumpFormSub in the text of "error" only.
FormRefused(endpoint, form) ==
    IF endpoint = "form" /\ form.body # "unreachable" /\ form.status # 200
    THEN [Response(400) EXCEPT !.status_code = <<form.status>>]
    ELSE Response(400)

\* A form submission from the answer of the form URL on: with a submission
\* id the SubmissionID is written for the transaction of the on_select read
\* before the post, and the select carrying the id is sent to the seller.
FormAnswered(thread, form, upstream) ==
    LET status == FormStatus(form)
        body == thread.body
        m == IF Truthy(body.message_id) THEN body.message_id ELSE thread.uuid
    IN
    \* The class of the exception a body that is not JSON raises, and so the
    \* handler's except clause, depends on the release of requests: such
    \* answers of the seller are left out.
    /\ upstream.body # "text"
    /\ thread \in pending
    /\ pending' = pending \ {thread}
    /\ UNCHANGED <<analytics, flow>>
    /\ req' = Request(thread.endpoint, body @@ [form |-> form, upstream |-> upstream])
    /\ IF status = 200
       THEN /\ SubmissionID' = Append(SubmissionID,
                    [transaction |-> thread.obj.transaction,
                     submission_id |-> form.submission_id, message_id |-> m])
            /\ IF OrderStatus(thread.obj.payload.order, OrderReads) # 200
               THEN sent' = <<>> /\ resp' = Response(500)
               ELSE /\ sent' = <<StepPayload("select", body, thread.uuid, thread.obj)
                                    @@ [submission_id |-> form.submission_id]>>
                    /\ resp' = IF upstream.body = "unreachable" THEN Response(400)
                               ELSE AfterAnalytics(Relayed(upstream))
       ELSE /\ UNCHANGED SubmissionID
            /\ sent' = <<>>
            /\ resp' = IF status = 400 THEN FormRefused(thread.endpoint, form)
                       ELSE Response(status)
    /\ UNCHANGED <<Transaction, Message, catalogVars, stageVars>>

\* FormSubmisssion.post up to its post to the form URL, and from the answer.
FormSubmisssion(body, uuid) == FormPosted("form", body, uuid)
FormSubmisssionAnswered(form, upstream) ==
    \E thread \in pending :
        thread.endpoint = "form" /\ FormAnswered(thread, form, upstream)

\* LumpFormSub.post, the form submission of a lumpsum purchase.
LumpFormSub(body, uuid) == FormPosted("lumpformsub", body, uuid)
LumpFormSubAnswered(form, upstream) ==
    \E thread \in pending :
        thread.endpoint = "lumpformsub" /\ FormAnswered(thread, form, upstream)

---------------------------------------------------------------------------
(* Outbound: the steps built from the latest on_status                     *)

\* The mutant of LatestByTimestamp: the row ingested last.
LatestByIngestion(table, transaction_id) ==
    {i \in ByTransaction(table, transaction_id) :
        \A j \in ByTransaction(table, transaction_id) : j <= i}

\* filter(transaction).order_by("-timestamp").first(): a row of the
\* transaction with the greatest timestamp (the database picks among rows
\* of equal timestamp); the empty set when the transaction has none.
LatestByTimestamp(table, transaction_id) ==
    {i \in ByTransaction(table, transaction_id) :
        \A j \in ByTransaction(table, transaction_id) :
            table[j].timestamp <= table[i].timestamp}

\* A step that takes the latest on_status of the transaction, builds a
\* select from it and sends it; with no on_status, obj.payload raises.
SendFromOnStatus(endpoint, body, required, uuid, upstream) ==
    LET latest == LatestByTimestamp(OnStatus, body.transaction_id)
        Reject(status) == sent' = <<>> /\ resp' = Response(status)
    IN
    /\ UNCHANGED <<analytics, flow, pending>>
    /\ req' = Request(endpoint, body @@ [upstream |-> upstream])
    /\ IF ~required THEN Reject(400)
       ELSE IF latest = {} THEN Reject(500)
       ELSE \E i \in latest :
              IF OrderStatus(OnStatus[i].payload.order, OrderReads) # 200
              THEN Reject(OrderStatus(OnStatus[i].payload.order, OrderReads))
              ELSE /\ sent' = <<StepPayload("select", body, uuid, OnStatus[i])>>
                   /\ resp' = AfterAnalytics(Relayed(upstream))
    /\ UNCHANGED storeVars

DigiLockerFormSubmission(body, uuid, upstream) ==
    SendFromOnStatus("digilocker", body,
        Truthy(body.transaction_id) /\ Truthy(body.bpp_id) /\ Truthy(body.bpp_uri)
            /\ Truthy(body.message_id_1),
        uuid, upstream)

EsignFormSubmission(body, uuid, upstream) ==
    SendFromOnStatus("esign", body,
        Truthy(body.transaction_id) /\ Truthy(body.bpp_id) /\ Truthy(body.bpp_uri),
        uuid, upstream)

LumpsumDigiLockerSubmission(body, uuid, upstream) ==
    SendFromOnStatus("lump_digilocker", body,
        Truthy(body.transaction_id) /\ Truthy(body.bpp_id) /\ Truthy(body.bpp_uri)
            /\ Truthy(body.message_id_select),
        uuid, upstream)

---------------------------------------------------------------------------
(* Outbound: status and cancel                                             *)

\* A step that builds its request from the caller's body alone.
SendFromBody(endpoint, action, body, required, uuid, upstream) ==
    /\ UNCHANGED <<analytics, flow, pending>>
    /\ req' = Request(endpoint, body @@ [upstream |-> upstream])
    /\ IF required
       THEN /\ sent' = <<Outbound(action, body.transaction_id,
                                  IF Truthy(body.message_id) THEN body.message_id
                                  ELSE uuid,
                                  body.bpp_id, body.bpp_uri, None)
                            @@ [order_id |-> body.order_id]>>
            /\ resp' = AfterAnalytics(Relayed(upstream))
       ELSE /\ sent' = <<>>
            /\ resp' = Response(400)
    /\ UNCHANGED storeVars

SIPCancel(body, uuid, upstream) ==
    SendFromBody("cancel", "cancel", body,
        Truthy(body.transaction_id) /\ Truthy(body.bpp_id) /\ Truthy(body.bpp_uri)
            /\ Truthy(body.order_id),
        uuid, upstream)

StatusAPIView(body, uuid, upstream) ==
    SendFromBody("status", "status", body,
        Truthy(body.transaction_id) /\ Truthy(body.bpp_id) /\ Truthy(body.bpp_uri),
        uuid, upstream)

---------------------------------------------------------------------------
(* Data views                                                              *)

\* Rows a lookup by (transaction, message_id) matches.
ByMessage(table, transaction_id, message_id) ==
    {i \in ByTransaction(table, transaction_id) : table[i].message_id = message_id}

\* on_select by (transaction_id, message_id): every exception, the 404 of
\* the lookup included, is answered 400, as the missing fields are.
OnSelectDataView(body) ==
    LET found == get_object_or_404(SelectSIP,
                    ByMessage(SelectSIP, body.transaction_id, body.message_id))
    IN
    /\ UNCHANGED <<analytics, flow, pending>>
    /\ req' = Request("on_select_data", body)
    /\ sent' = <<>>
    /\ resp' = IF ~(Truthy(body.transaction_id) /\ Truthy(body.message_id))
               THEN Response(400)
               ELSE IF found.status # 200 THEN Response(400)
               ELSE DataResponse(found.obj[1].payload)
    /\ UNCHANGED storeVars

\* on_init by (transaction_id, message_id): every exception, the 404 of the
\* lookup included, is answered 500.
OnInitDataView(body) ==
    LET found == get_object_or_404(OnInitSIP,
                    ByMessage(OnInitSIP, body.transaction_id, body.message_id))
    IN
    /\ UNCHANGED <<analytics, flow, pending>>
    /\ req' = Request("on_init_data", body)
    /\ sent' = <<>>
    /\ resp' = IF ~(Truthy(body.transaction_id) /\ Truthy(body.message_id))
               THEN Response(400)
               ELSE IF found.status # 200 THEN Response(500)
               ELSE DataResponse(found.obj[1].payload)
    /\ UNCHANGED storeVars

\* The latest on_status of the transaction; with none, obj.payload raises.
OnStatusDataView(body) ==
    LET latest == LatestByTimestamp(OnStatus, body.transaction_id)
    IN
    /\ UNCHANGED <<analytics, flow, pending>>
    /\ req' = Request("on_status_data", body)
    /\ sent' = <<>>
    /\ IF ~Truthy(body.transaction_id) THEN resp' = Response(400)
       ELSE IF latest = {} THEN resp' = Response(500)
       ELSE \E i \in latest : resp' = DataResponse(OnStatus[i].payload)
    /\ UNCHANGED storeVars

---------------------------------------------------------------------------
\* The database after migration, and no request handled yet.
Construction ==
    /\ Transaction = {}
    /\ Message = <<>>
    /\ FullOnSearch = <<>>
    /\ Scheme = <<>>
    /\ ONDCTransaction = <<>>
    /\ MutualFundProvider = {}
    /\ SchemeCategory = {}
    /\ MutualFundScheme = {}
    /\ SchemePlan = {}
    /\ FulfillmentOption = {}
    /\ SelectSIP = <<>>
    /\ SubmissionID = <<>>
    /\ OnInitSIP = <<>>
    /\ OnConfirm = <<>>
    /\ OnStatus = <<>>
    /\ OnUpdate = <<>>
    /\ OnCancel = <<>>
    /\ req = Request("none", NoBody)
    /\ sent = <<>>
    /\ resp = Response(200)

Init == Construction /\ analytics = "up" /\ flow = NoFlow /\ pending = {}

---------------------------------------------------------------------------
(* Callback validation: search and the six callback endpoints, fed with    *)
(* well formed and with defective contexts                                 *)

FullOrder == Order("full", "P1", "pan:ABCDE1234F", "MANDATE_REGISTRATION", "PRE_FULFILLMENT")

\* Every combination of a known or unknown transaction, a timestamp that
\* parses, is malformed or is no date, and the right or a wrong action; and
\* contexts that lack one field, alone and together with a later defect.
DefectiveContexts(expected) ==
    {Context(M1, t, ts, a, Seller1) :
        t \in {T1, T2}, ts \in {TS1, TSMalformed, TSInvalidDate},
        a \in {expected, "on_search"}}
    \cup {Context(None, T1, TS1, expected, Seller1),
          Context(M1, None, TS1, expected, Seller1),
          Context(M1, T1, None, expected, Seller1),
          Context(M1, T1, TS1, None, Seller1),
          Context(M1, T2, None, expected, Seller1),
          Context(None, T2, TSMalformed, "on_search", Seller1)}

DefectiveCallbacks(expected) == {Callback(c, FullOrder) : c \in DefectiveContexts(expected)}

NextValidate ==
    \/ ONDCSearchView(T1, M1, "uuid-1", "uuid-2", UpstreamOK)
    \/ \E data \in DefectiveCallbacks("on_select") : OnSelectSIPView(data)
    \/ \E data \in DefectiveCallbacks("on_init") : ONINIT(data)
    \/ \E data \in DefectiveCallbacks("on_confirm") : OnConfirmSIP(data)
    \/ \E data \in DefectiveCallbacks("on_status") : OnStatusView(data)
    \/ \E data \in DefectiveCallbacks("on_update") : OnUpdateView(data)
    \/ \E data \in DefectiveCallbacks("on_cancel") : OnCancelView(data)

SpecValidate == Init /\ [][NextValidate]_vars

---------------------------------------------------------------------------
(* Claims about callback validation *)

CallbackEndpoints ==
    {"on_select", "on_init", "on_confirm", "on_status", "on_update", "on_cancel"}

\* The status the validation order of the callback ingestor gives a context:
\* (1) fields present, (2) action matches, (3) timestamp parses, each else
\* 400, (4) transaction exists, else 404, and 200 when all pass.
ClaimedStatus(context, expected) ==
    IF ~(Truthy(context.message_id) /\ Truthy(context.transaction_id)
            /\ Truthy(context.timestamp) /\ Truthy(context.action))
    THEN 400
    ELSE IF context.action # expected THEN 400
    ELSE IF parse_datetime_raises(context.timestamp)
            \/ parse_datetime(context.timestamp) = <<>> THEN 400
    ELSE IF context.transaction_id \notin Transaction THEN 404
    ELSE 200

\* C3: on each of the six callback endpoints the first failing check decides
\* the answer: NACK/400 for a missing field, a wrong action or a timestamp
\* that does not parse, NACK/404 for an unknown transaction, and ACK/200 only
\* when every check passes.
C3_FirstFailingCheckDecides ==
    [][req'.endpoint \in CallbackEndpoints =>
        LET claimed == ClaimedStatus(req'.body.context, req'.endpoint) IN
        /\ claimed # 200 => resp' = AckResponse(claimed)
        /\ resp'.status = 200 => claimed = 200 /\ resp'.ack = "ACK"]_vars

\* C4: a callback answered NACK with 400 or 404 leaves the transaction
\* table, the message log, the submissions, the catalog and every stage
\* table as they were.
C4_RejectedCallbackWritesNothing ==
    [][(/\ req'.endpoint \in CallbackEndpoints
        /\ resp'.ack = "NACK"
        /\ resp'.status \in {400, 404}) => UNCHANGED storeVars]_vars

\* An on_init callback without context.timestamp was answered NACK/400 while
\* the on_init table held a row.
C4_Witness ==
    /\ req.endpoint = "on_init"
    /\ req.body.context.timestamp = None
    /\ resp = AckResponse(400)
    /\ Len(OnInitSIP) > 0

NoTwoRowsWithOneMessageId(table) ==
    \A i, j \in DOMAIN table :
        (/\ table[i].transaction = table[j].transaction
         /\ table[i].message_id = table[j].message_id) => i = j

\* C5: no stage table holds two rows with the same transaction and the same
\* message_id.
C5_NoDoubleStore ==
    /\ NoTwoRowsWithOneMessageId(SelectSIP)
    /\ NoTwoRowsWithOneMessageId(OnInitSIP)
    /\ NoTwoRowsWithOneMessageId(OnConfirm)
    /\ NoTwoRowsWithOneMessageId(OnStatus)
    /\ NoTwoRowsWithOneMessageId(OnUpdate)
    /\ NoTwoRowsWithOneMessageId(OnCancel)

---------------------------------------------------------------------------
(* Discovery: search, on_search from two sellers, SIP select               *)

Today == <<2025, 2>>

SIPCatalog ==
    Catalog(<<Provider("P1", "Fund House",
                <<Item("S1", "SCHEME", "Flexi Cap", None, {"C1"}, <<>>),
                  Item("PL1", "SCHEME_PLAN", "Direct Growth", "S1", {}, <<"F1", "F2">>)>>,
                <<Fulfillment("F1", "LUMPSUM"), Fulfillment("F2", "SIP")>>)>>,
            <<Category("C1", "P1", None, "Equity")>>)
NamelessCatalog ==
    Catalog(<<Provider("P2", None, <<>>, <<>>)>>, <<>>)
EmptyCatalog == Catalog(<<>>, <<>>)

OnSearchBodies ==
    {OnSearchBody(Context(M1, t, ts, "on_search", s), c) :
        t \in TransactionIds, ts \in {TS1, TSMalformed}, s \in Sellers,
        c \in {SIPCatalog, NamelessCatalog, EmptyCatalog}}

SIPBody(t, m, s, pan, frequency, date) ==
    [transaction_id |-> t, message_id |-> m, bpp_id |-> s.bpp_id,
     bpp_uri |-> s.bpp_uri, amount |-> "3000", pan |-> pan,
     frequency |-> frequency, repeat |-> 6, date |-> date]

SIPBodies ==
    {SIPBody(t, M2, s, "ABCDE1234F", "monthly", d) :
        t \in TransactionIds, s \in Sellers, d \in {5, 30}}
    \cup {SIPBody(T1, None, Seller1, "ABCDE1234F", "fortnightly", 5),
          SIPBody(T1, M2, [bpp_id |-> None, bpp_uri |-> Seller1.bpp_uri],
                  "ABCDE1234F", "monthly", 5)}

NextSearch ==
    \/ \E t \in {T1, T2} : ONDCSearchView(t, M1, "uuid-1", "uuid-2", UpstreamOK)
    \/ \E data \in OnSearchBodies : OnSearchView(data)
    \/ \E body \in SIPBodies : SIPCreationView(body, "uuid-1", Today, UpstreamOK)

SpecSearch == Init /\ [][NextSearch]_vars

\* An on_search from the seller of the request was acknowledged for the
\* request's transaction: the ONDCTransaction row is written by an
\* acknowledged on_search only.
SearchAcked(body) ==
    \E i \in DOMAIN ONDCTransaction :
        /\ ONDCTransaction[i].transaction_id = body.transaction_id
        /\ ONDCTransaction[i].bpp_id = body.bpp_id
        /\ ONDCTransaction[i].bpp_uri = body.bpp_uri

\* C1: once an on_search callback for (T, B, U) has been acknowledged with
\* ACK/200, an SIP select for (T, B, U) finds the stored search result and
\* is not answered 404.
C1_SelectAfterAckedSearchFindsResult ==
    (req.endpoint = "sip_select" /\ SearchAcked(req.body))
        => /\ BySeller(FullOnSearch, req.body.transaction_id,
                       req.body.bpp_id, req.body.bpp_uri) # {}
           /\ resp.status # 404

---------------------------------------------------------------------------
(* Transaction steps: on_select callbacks of two sellers and the steps     *)
(* that follow them                                                        *)

Seller2Order == Order("full", "P2", "pan:ABCDE1234F", "MANDATE_REGISTRATION", "PRE_FULFILLMENT")

\* A first and a second on_select of seller 1, an on_select of seller 2, an
\* on_select whose order lacks the keys the steps read, one whose payment
\* has no "type", one with a single payment, one with "fulfillments": [] and
\* one without the form URL.
TypelessOrder == Order("full", "P2", "pan:ABCDE1234F", "MANDATE_REGISTRATION", None)
UnfulfilledOrder == Order("full", "P2", EmptyList, "MANDATE_REGISTRATION", "PRE_FULFILLMENT")
SelectCallbacks ==
    {Callback(Context(M1, T1, TS1, "on_select", Seller1), FullOrder),
     Callback(Context(M2, T1, TS2, "on_select", Seller1), FullOrder),
     Callback(Context(M1, T1, TS1, "on_select", Seller2), Seller2Order),
     Callback(Context(M2, T1, TS2, "on_select", Seller2),
              Order("no_keys", None, None, None, None)),
     Callback(Context(M1, T1, TS2, "on_select", Seller2), TypelessOrder),
     Callback(Context(M2, T1, TS1, "on_select", Seller1), SinglePayment(FullOrder)),
     Callback(Context(M2, T1, TS1, "on_select", Seller2), UnfulfilledOrder),
     Callback(Context(M1, T1, TS2, "on_select", Seller1), WithoutFormUrl(FullOrder))}

StepBody(t, bpp_id, bpp_uri, message_id_select, m, order_id) ==
    [transaction_id |-> t, bpp_id |-> bpp_id, bpp_uri |-> bpp_uri,
     message_id_select |-> message_id_select, message_id |-> m,
     order_id |-> order_id]

\* Bodies for the steps keyed by the seller, and for those keyed by the
\* message id of the on_select as well.
SellerBodies ==
    {StepBody(T1, s.bpp_id, s.bpp_uri, M1, "m9", "O1") : s \in Sellers}
StepBodies ==
    {StepBody(T1, s.bpp_id, s.bpp_uri, ms, "m9", "O1") :
        s \in Sellers, ms \in MessageIds}
DefectiveStepBodies ==
    {StepBody(T2, Seller2.bpp_id, Seller2.bpp_uri, M2, "m9", "O1"),
     StepBody(T1, Seller1.bpp_id, None, M1, "m9", "O1"),
     StepBody(T1, Seller1.bpp_id, Seller1.bpp_uri, None, None, None)}

NextSteps ==
    \/ ONDCSearchView(T1, M1, "uuid-1", "uuid-2", UpstreamOK)
    \/ \E data \in SelectCallbacks : OnSelectSIPView(data)
    \/ \E body \in SellerBodies \cup DefectiveStepBodies :
          FormSubmisssion(body, "uuid-1")
    \/ \E form \in Forms : FormSubmisssionAnswered(form, UpstreamOK)
    \/ \E body \in SellerBodies : LumpFormSub(body, "uuid-1")
    \/ \E form \in {FormOK, Form(422, "json", None)} :
          LumpFormSubAnswered(form, UpstreamOK)
    \/ \E body \in StepBodies \cup DefectiveStepBodies :
          \/ INIT(body, "uuid-1", UpstreamOK)
          \/ LumpINIT(body, "uuid-1", UpstreamOK)
    \/ \E upstream \in {Upstream(0, "unreachable"), Upstream(502, "text")} :
          INIT(StepBody(T1, Seller1.bpp_id, Seller1.bpp_uri, M1, "m9", "O1"),
               "uuid-1", upstream)
    \/ \E body \in SellerBodies \cup DefectiveStepBodies :
          \/ SIPExixstingInit(body, "uuid-1", UpstreamOK)
          \/ LumpRetryInit(body, "uuid-1", UpstreamOK)
          \/ RedemptionInit(body, "uuid-1", UpstreamOK)
          \/ SIPCancel(body, "uuid-1", UpstreamOK)
          \/ StatusAPIView(body, "uuid-1", UpstreamOK)

SpecSteps == Init /\ [][NextSteps]_vars

\* The stored on_select rows of a request's transaction and seller, matched
\* field by field.
SelectRowsFor(body) ==
    {i \in DOMAIN SelectSIP :
        /\ SelectSIP[i].transaction = body.transaction_id
        /\ SelectSIP[i].payload.context.bpp_id = body.bpp_id
        /\ SelectSIP[i].payload.context.bpp_uri = body.bpp_uri}

\* No stage table holds a record of the request's transaction and seller.
NoStageRecordFor(body) ==
    /\ BySeller(SelectSIP, body.transaction_id, body.bpp_id, body.bpp_uri) = {}
    /\ BySeller(OnInitSIP, body.transaction_id, body.bpp_id, body.bpp_uri) = {}
    /\ BySeller(OnConfirm, body.transaction_id, body.bpp_id, body.bpp_uri) = {}
    /\ BySeller(OnStatus, body.transaction_id, body.bpp_id, body.bpp_uri) = {}
    /\ BySeller(OnUpdate, body.transaction_id, body.bpp_id, body.bpp_uri) = {}
    /\ BySeller(OnCancel, body.transaction_id, body.bpp_id, body.bpp_uri) = {}

StepEndpoints ==
    {"form", "init", "lump_init", "existing_init", "retry_init",
     "redemption_init", "cancel", "status"}

\* Every field of a step's body is present.
AllPresent(body) ==
    /\ Truthy(body.transaction_id) /\ Truthy(body.bpp_id) /\ Truthy(body.bpp_uri)
    /\ Truthy(body.message_id_select) /\ Truthy(body.message_id)
    /\ Truthy(body.order_id)

\* C2: an outbound step other than search whose transaction and seller have
\* no stored record of any earlier stage ends in a correlation miss (404)
\* and sends no HTTP request to the seller.
C2_NoPriorRecordNoSend ==
    (req.endpoint \in StepEndpoints /\ AllPresent(req.body)
        /\ NoStageRecordFor(req.body))
        => (sent = <<>> /\ resp.status = 404)

\* C7: an init (SIP or lumpsum) whose matching on_select is not stored is
\* answered 404 in the one step that handles it: nothing is sent to the
\* seller, nothing is written, and the handler does not wait for the record.
C7_InitBeforeOnSelectIs404AtOnce ==
    [][(req'.endpoint \in {"init", "lump_init"} /\ AllPresent(req'.body)
          /\ ~\E i \in SelectRowsFor(req'.body) :
                SelectSIP[i].payload.context.message_id = req'.body.message_id_select)
        => (resp'.status = 404 /\ sent' = <<>> /\ UNCHANGED storeVars)]_vars

\* An init answered 404 although an on_select of the same transaction and
\* seller, with another message id, is stored.
C7_Witness ==
    /\ req.endpoint = "init"
    /\ AllPresent(req.body)
    /\ SelectRowsFor(req.body) # {}
    /\ \A i \in SelectRowsFor(req.body) :
          SelectSIP[i].payload.context.message_id # req.body.message_id_select
    /\ resp.status = 404
    /\ sent = <<>>

\* The greatest timestamp among the stored on_select rows of the request.
NewestSelectFor(body) ==
    {i \in SelectRowsFor(body) :
        \A j \in SelectRowsFor(body) : SelectSIP[j].timestamp <= SelectSIP[i].timestamp}

\* C8: with more than one on_select stored for (transaction, bpp_id,
\* bpp_uri), form submission and the existing-folio, payment-retry and
\* redemption inits take the newest record by timestamp and succeed.
C8_SeveralOnSelectNewestWins ==
    (/\ req.endpoint \in {"form", "existing_init", "retry_init", "redemption_init"}
     /\ AllPresent(req.body)
     /\ req.endpoint = "form" => req.body.form \in {FormOK, NotCalled}
     /\ Cardinality(SelectRowsFor(req.body)) > 1
     /\ \A i \in SelectRowsFor(req.body) : SelectSIP[i].payload.order.shape = "full")
        => /\ resp.status = 200
           /\ sent # <<>>
           /\ \E i \in NewestSelectFor(req.body) :
                 sent[1].provider = SelectSIP[i].payload.order.provider

---------------------------------------------------------------------------
(* Duplicate on_init: on_init callbacks, the on_init data view, confirm    *)

InitCallbacks ==
    {Callback(Context(M1, T1, TS1, "on_init", Seller1), FullOrder),
     Callback(Context(M2, T1, TS2, "on_init", Seller1),
              Order("full", "P1", "pan:ABCDE1234F", "UPI_ON_DELIVERY", "ON_FULFILLMENT")),
     Callback(Context(M1, T1, TS1, "on_init", Seller2), Seller2Order),
     Callback(Context(M2, T1, TS2, "on_init", Seller2),
              Order("full", "P2", "pan:ABCDE1234F", None, "PRE_FULFILLMENT")),
     Callback(Context(M2, T2, TS2, "on_init", Seller2), Seller2Order)}

DataBody(t, m) == [transaction_id |-> t, message_id |-> m]
DataBodies ==
    {DataBody(T1, M1), DataBody(T1, M2), DataBody(T2, M1), DataBody(T1, None)}

ConfirmBody(t, bpp_id, bpp_uri, message_id_init, m) ==
    [transaction_id |-> t, bpp_id |-> bpp_id, bpp_uri |-> bpp_uri,
     message_id_init |-> message_id_init, message_id |-> m]
ConfirmBodies ==
    {ConfirmBody(T1, s.bpp_id, s.bpp_uri, mi, "m9") :
        s \in Sellers, mi \in MessageIds}
    \cup {ConfirmBody(T1, Seller1.bpp_id, Seller1.bpp_uri, None, None)}

NextInit ==
    \/ ONDCSearchView(T1, M1, "uuid-1", "uuid-2", UpstreamOK)
    \/ \E data \in InitCallbacks : ONINIT(data)
    \/ \E body \in DataBodies : OnInitDataView(body)
    \/ \E body \in DataBodies : OnSelectDataView(body)
    \/ \E body \in ConfirmBodies : ConfirmSIP(body, "uuid-1", UpstreamOK)
    \/ \E upstream \in Upstreams :
          ConfirmSIP(ConfirmBody(T1, Seller1.bpp_id, Seller1.bpp_uri, M1, "m9"),
                     "uuid-1", upstream)

SpecInit == Init /\ [][NextInit]_vars

\* The stored on_init rows the data view's key names.
InitRowsByMessage(body) ==
    {i \in DOMAIN OnInitSIP :
        /\ OnInitSIP[i].transaction = body.transaction_id
        /\ OnInitSIP[i].message_id = body.message_id}

\* The stored on_init rows the confirm's key names.
InitRowsForConfirm(body) ==
    {i \in InitRowsByMessage([transaction_id |-> body.transaction_id,
                              message_id |-> body.message_id_init]) :
        /\ OnInitSIP[i].payload.context.bpp_id = body.bpp_id
        /\ OnInitSIP[i].payload.context.bpp_uri = body.bpp_uri}

\* The rows are ingestions of one callback.
OneCallback(rows) ==
    rows # {} /\ \A i, j \in rows : OnInitSIP[i].payload = OnInitSIP[j].payload

\* C6: an on_init ingested more than once is retrieved as if ingested once:
\* the on_init data view returns its payload with 200, and the confirm
\* keyed by message_id_init builds and sends its request from it.
C6_DuplicateOnInitRetrievedAsOne ==
    /\ (req.endpoint = "on_init_data" /\ OneCallback(InitRowsByMessage(req.body)))
          => \E i \in InitRowsByMessage(req.body) :
                resp = DataResponse(OnInitSIP[i].payload)
    /\ (/\ req.endpoint = "confirm"
        /\ req.body.upstream = UpstreamOK
        /\ OneCallback(InitRowsForConfirm(req.body))
        /\ \A i \in InitRowsForConfirm(req.body) :
              OnInitSIP[i].payload.order.payment_method # None)
          => (resp.status = 200 /\ sent # <<>>)

---------------------------------------------------------------------------
(* Latest on_status: on_status callbacks of two sellers, the DigiLocker    *)
(* and e-sign submissions, the on_status data view                         *)

StatusCallbacks ==
    {Callback(Context(M1, T1, TS1, "on_status", Seller1), FullOrder),
     Callback(Context(M2, T1, TS2, "on_status", Seller1), FullOrder),
     Callback(Context(M1, T1, TS1b, "on_status", Seller2), Seller2Order),
     Callback(Context(M2, T1, TS2, "on_status", Seller2),
              Order("no_keys", None, None, None, None)),
     Callback(Context(M2, T1, TS2, "on_status", Seller1),
              Order("full", "P1", EmptyList, None, None)),
     Callback(Context(M2, T2, TS2, "on_status", Seller2), Seller2Order)}

SubmissionBody(t, bpp_id, bpp_uri, message_id_select, m) ==
    [transaction_id |-> t, bpp_id |-> bpp_id, bpp_uri |-> bpp_uri,
     message_id_1 |-> message_id_select, message_id_select |-> message_id_select,
     message_id |-> m]
SubmissionBodies ==
    {SubmissionBody(T1, s.bpp_id, s.bpp_uri, M1, "m9") : s \in Sellers}
    \cup {SubmissionBody(T2, Seller1.bpp_id, Seller1.bpp_uri, M1, "m9"),
          SubmissionBody(T1, Seller1.bpp_id, Seller1.bpp_uri, None, None),
          SubmissionBody(T1, None, Seller1.bpp_uri, M1, "m9")}

NextStatus ==
    \/ ONDCSearchView(T1, M1, "uuid-1", "uuid-2", UpstreamOK)
    \/ \E data \in StatusCallbacks : OnStatusView(data)
    \/ \E body \in SubmissionBodies :
          \/ DigiLockerFormSubmission(body, "uuid-1", UpstreamOK)
          \/ EsignFormSubmission(body, "uuid-1", UpstreamOK)
          \/ LumpsumDigiLockerSubmission(body, "uuid-1", UpstreamOK)
    \/ \E body \in {DataBody(T1, M1), DataBody(T2, M1), DataBody(None, M1)} :
          OnStatusDataView(body)

SpecStatus == Init /\ [][NextStatus]_vars

SubmissionEndpoints == {"digilocker", "esign", "lump_digilocker"}

\* C9: a request sent to seller (bpp_id, bpp_uri) carries order data of a
\* stored record of the same transaction whose context names that bpp_id
\* and bpp_uri, never data of another seller's record.
C9_RequestBuiltFromOwnSellersRecord ==
    (req.endpoint \in SubmissionEndpoints /\ sent # <<>>)
        => \E i \in DOMAIN OnStatus :
              /\ OnStatus[i].transaction = sent[1].transaction_id
              /\ OnStatus[i].payload.context.bpp_id = sent[1].bpp_id
              /\ OnStatus[i].payload.context.bpp_uri = sent[1].bpp_uri
              /\ OnStatus[i].payload.order.provider = sent[1].provider

\* The stored on_status rows of a transaction whose context timestamp is
\* the greatest.
GreatestTimestamp(transaction_id) ==
    {i \in DOMAIN OnStatus :
        /\ OnStatus[i].transaction = transaction_id
        /\ \A j \in DOMAIN OnStatus :
              OnStatus[j].transaction = transaction_id
                  => OnStatus[j].timestamp <= OnStatus[i].timestamp}

\* C10: whatever the order the on_status callbacks of a transaction came
\* in, the DigiLocker and e-sign submissions build their request from, and
\* the on_status data view returns, a stored record with the greatest
\* context timestamp.
C10_GreatestTimestampIsUsed ==
    /\ (req.endpoint \in SubmissionEndpoints /\ sent # <<>>)
          => \E i \in GreatestTimestamp(req.body.transaction_id) :
                sent[1].provider = OnStatus[i].payload.order.provider
    /\ (req.endpoint = "on_status_data" /\ resp.status = 200)
          => \E i \in GreatestTimestamp(req.body.transaction_id) :
                resp.data = <<OnStatus[i].payload>>

\* A DigiLocker submission built from the earlier ingested record, which
\* has the greater timestamp, while the record ingested last has a smaller
\* timestamp and another provider.
C10_Witness ==
    /\ req.endpoint = "digilocker"
    /\ sent # <<>>
    /\ Len(OnStatus) = 2
    /\ OnStatus[1].transaction = req.body.transaction_id
    /\ OnStatus[2].transaction = req.body.transaction_id
    /\ OnStatus[2].timestamp < OnStatus[1].timestamp
    /\ OnStatus[1].payload.order.provider # OnStatus[2].payload.order.provider
    /\ sent[1].provider = OnStatus[1].payload.order.provider

---------------------------------------------------------------------------
(* Claims about the records and the answer of an outbound call             *)

\* The endpoints that send a request to a seller.
SellerEndpoints ==
    StepEndpoints \cup SubmissionEndpoints
        \cup {"sip_select", "confirm", "lump_confirm", "existing_confirm",
              "retry_confirm", "redemption_confirm"}

\* C12: once an outbound request carrying transaction id T has been sent,
\* a Transaction with id T is stored, so that the callback answering the
\* request is not rejected as an unknown transaction.
C12_SentTransactionIsStored ==
    (req.endpoint \in SellerEndpoints \cup {"search"} /\ sent # <<>>)
        => sent[1].transaction_id \in Transaction

\* The Message rows that record the request just sent.
MessagesOfSent ==
    {i \in DOMAIN Message :
        /\ Message[i].message_id = sent[1].message_id
        /\ Message[i].action = sent[1].action
        /\ Message[i].payload = sent[1]}

\* C13: every outbound call leaves exactly one Message record holding the
\* call's message_id, action and payload.
C13_OneMessagePerOutboundCall ==
    (req.endpoint \in SellerEndpoints \cup {"search"} /\ sent # <<>>)
        => Cardinality(MessagesOfSent) = 1

\* C14: when the seller answers a request with a status that is not 2xx,
\* the endpoint answers with that status and the seller's body, never
\* with HTTP 200.
C14_UpstreamFailurePassedThrough ==
    (/\ req.endpoint \in SellerEndpoints
     /\ sent # <<>>
     /\ req.body.upstream.body = "json"
     /\ ~(req.body.upstream.status \in 200..299))
        => /\ resp.status = req.body.upstream.status
           /\ resp.response = "json"

\* C15: when the gateway or the seller answers with a body that is not
\* JSON, the endpoint returns that body as text and does not fail.
C15_NonJsonBodyReturnedAsText ==
    (/\ req.endpoint \in SellerEndpoints \cup {"search"}
     /\ sent # <<>>
     /\ req.body.upstream.body = "text")
        => /\ resp.status # 500
           /\ resp.response = "text"

---------------------------------------------------------------------------
(* Confirm: on_init callbacks of two sellers and the confirm variants      *)

ConfirmCallbacks ==
    {Callback(Context(M1, T1, TS1, "on_init", Seller1), FullOrder),
     Callback(Context(M2, T1, TS2, "on_init", Seller1),
              Order("full", "P1", "pan:ABCDE1234F", "UPI_ON_DELIVERY", "ON_FULFILLMENT")),
     Callback(Context(M1, T1, TS1, "on_init", Seller2),
              Order("full", "P2", "pan:ABCDE1234F", "NETBANKING", "PRE_FULFILLMENT")),
     Callback(Context(M2, T1, TS2, "on_init", Seller2),
              Order("no_nested", "P2", "pan:ABCDE1234F", "MANDATE_REGISTRATION",
                    "PRE_FULFILLMENT")),
     Callback(Context(M2, T1, TS1, "on_init", Seller1), WithoutPaymentUrl(FullOrder)),
     Callback(Context(M1, T1, TS2, "on_init", Seller2), UnfulfilledOrder)}

NextConfirm ==
    \/ ONDCSearchView(T1, M1, "uuid-1", "uuid-2", UpstreamOK)
    \/ \E data \in ConfirmCallbacks : ONINIT(data)
    \/ \E body \in ConfirmBodies :
          \/ ConfirmSIP(body, "uuid-1", UpstreamOK)
          \/ ConfirmLump(body, "uuid-1", UpstreamOK)
          \/ SIPExistingConfirm(body, "uuid-1", UpstreamOK)
          \/ LumpRetryConfirm(body, "uuid-1", UpstreamOK)
          \/ RedemptionConfirm(body, "uuid-1", UpstreamOK)

SpecConfirm == Init /\ [][NextConfirm]_vars

ConfirmEndpoints ==
    {"confirm", "lump_confirm", "existing_confirm", "retry_confirm",
     "redemption_confirm"}

\* The stored on_init rows with the transaction, the seller and the
\* message id the body of a confirm names.
NamedInitRows(body) ==
    {i \in DOMAIN OnInitSIP :
        /\ OnInitSIP[i].transaction = body.transaction_id
        /\ OnInitSIP[i].payload.context.bpp_id = body.bpp_id
        /\ OnInitSIP[i].payload.context.bpp_uri = body.bpp_uri
        /\ OnInitSIP[i].payload.context.message_id = body.message_id_init}

\* C11: every confirm variant builds its request from the stored on_init
\* that matches (transaction_id, bpp_id, bpp_uri, message_id_init), also
\* when the seller has other on_init records stored for the transaction.
C11_ConfirmUsesNamedOnInit ==
    (/\ req.endpoint \in ConfirmEndpoints
     /\ Truthy(req.body.message_id_init) /\ Truthy(req.body.message_id)
     /\ Cardinality(NamedInitRows(req.body)) = 1
     /\ \A i \in NamedInitRows(req.body) : OnInitSIP[i].payload.order.shape = "full")
        => /\ resp.status = 200
           /\ sent # <<>>
           /\ \A i \in NamedInitRows(req.body) :
                 /\ sent[1].provider = OnInitSIP[i].payload.order.provider
                 /\ req.endpoint # "redemption_confirm"
                       => sent[1].payment_method = OnInitSIP[i].payload.order.payment_method

---------------------------------------------------------------------------
(* Claims about missing records and missing fields                         *)

\* C17: a DigiLocker or e-sign submission for a transaction that has no
\* stored on_status is answered 404 and sends nothing to the seller.
C17_SubmissionWithoutOnStatusIs404 ==
    (/\ req.endpoint \in SubmissionEndpoints
     /\ Truthy(req.body.transaction_id) /\ Truthy(req.body.bpp_id)
     /\ Truthy(req.body.bpp_uri) /\ Truthy(req.body.message_id_select)
     /\ \A i \in DOMAIN OnStatus : OnStatus[i].transaction # req.body.transaction_id)
        => (resp.status = 404 /\ sent = <<>>)

\* The stored on_select rows an init's body names.
NamedSelectRows(body) ==
    {i \in DOMAIN SelectSIP :
        /\ SelectSIP[i].transaction = body.transaction_id
        /\ SelectSIP[i].payload.context.bpp_id = body.bpp_id
        /\ SelectSIP[i].payload.context.bpp_uri = body.bpp_uri
        /\ SelectSIP[i].payload.context.message_id = body.message_id_select}

\* C18: when the record an init or a confirm is built from lacks a nested
\* field the request needs, the answer is HTTP 400 and nothing is sent.
C18_MissingNestedFieldIs400 ==
    /\ (/\ req.endpoint \in {"confirm", "lump_confirm"}
        /\ Cardinality(NamedInitRows(req.body)) = 1
        /\ \A i \in NamedInitRows(req.body) :
              OnInitSIP[i].payload.order.shape = "no_nested")
          => (resp.status = 400 /\ sent = <<>>)
    /\ (/\ req.endpoint \in {"init", "lump_init"}
        /\ Cardinality(NamedSelectRows(req.body)) = 1
        /\ \A i \in NamedSelectRows(req.body) :
              SelectSIP[i].payload.order.shape = "no_nested")
          => (resp.status = 400 /\ sent = <<>>)

\* C20: the payment block of every confirm variant carries the payment type
\* that the payment method of the stored on_init gives: PRE_FULFILLMENT for
\* MANDATE_REGISTRATION, ON_FULFILLMENT for UPI_ON_DELIVERY, POST_FULFILLMENT
\* for every other method.
C20_PaymentTypeFollowsMethod ==
    (/\ req.endpoint \in {"confirm", "lump_confirm", "existing_confirm", "retry_confirm"}
     /\ sent # <<>>)
        => sent[1].payment_type =
              (CASE sent[1].payment_method = "MANDATE_REGISTRATION" -> "PRE_FULFILLMENT"
                 [] sent[1].payment_method = "UPI_ON_DELIVERY" -> "ON_FULFILLMENT"
                 [] OTHER -> "POST_FULFILLMENT")

\* C24: an on_status callback that passes the checks is stored and answered
\* ACK/200 whether or not the customer PAN can be extracted; the stored pan
\* is the person id without its "pan:" prefix, and empty when fulfillments
\* is absent or an empty list or the id has no such prefix.
C24_OnStatusStoredWithoutPan ==
    (/\ req.endpoint = "on_status"
     /\ ValidateCallback(req.body.context, "on_status") = 200)
        => /\ resp = AckResponse(200)
           /\ \E i \in DOMAIN OnStatus :
                 /\ OnStatus[i].payload = req.body
                 /\ OnStatus[i].pan =
                      (IF req.body.order.person = "pan:ABCDE1234F"
                       THEN "ABCDE1234F" ELSE None)

---------------------------------------------------------------------------
(* Analytics: the same requests served while the analytics service answers *)
(* and while every forward to it fails                                     *)

\* The analytics service goes down before the first request and stays
\* down: the handlers leave it as they find it.
AnalyticsDown ==
    /\ analytics = "up"
    /\ req.endpoint = "none"
    /\ analytics' = "down"
    /\ UNCHANGED <<storeVars, req, sent, resp, flow, pending>>

\* An on_select of an unknown transaction besides the well formed ones, and
\* an on_init of each seller.
AnalyticsCallbacks ==
    SelectCallbacks
        \cup {Callback(Context(M1, T2, TS1, "on_select", Seller1), FullOrder)}
AnalyticsInitCallbacks ==
    {Callback(Context(M1, T1, TS1, "on_init", s), FullOrder) : s \in Sellers}

NextAnalytics ==
    \/ AnalyticsDown
    \/ \E upstream \in {UpstreamOK, Upstream(400, "json")} :
          ONDCSearchView(T1, M1, "uuid-1", "uuid-2", upstream)
    \/ \E data \in AnalyticsCallbacks : OnSelectSIPView(data)
    \/ \E data \in AnalyticsInitCallbacks : ONINIT(data)
    \/ \E body \in StepBodies, upstream \in Upstreams \ {Upstream(502, "text")} :
          INIT(body, "uuid-1", upstream)
    \/ \E body \in SellerBodies, upstream \in {Upstream(200, "empty")} :
          StatusAPIView(body, "uuid-1", upstream)

SpecAnalytics == Init /\ [][NextAnalytics]_vars

\* The stage table a callback endpoint stores in.
StageTable(endpoint) ==
    CASE endpoint = "on_select" -> SelectSIP
      [] endpoint = "on_init" -> OnInitSIP
      [] endpoint = "on_confirm" -> OnConfirm
      [] endpoint = "on_status" -> OnStatus
      [] endpoint = "on_update" -> OnUpdate
      [] endpoint = "on_cancel" -> OnCancel

\* C16: a failure of the forward to the analytics service never changes the
\* outcome of the request.  While every forward fails, a callback that
\* passes the checks is stored and answered with ACK and HTTP 200, and an
\* outbound call the seller answered still returns the seller's status and
\* body.
C16_AnalyticsFailureChangesNothing ==
    analytics = "down" =>
        /\ (/\ req.endpoint \in CallbackEndpoints
            /\ ValidateCallback(req.body.context, req.endpoint) = 200)
              => /\ resp = AckResponse(200)
                 /\ \E i \in DOMAIN StageTable(req.endpoint) :
                       /\ StageTable(req.endpoint)[i].message_id
                            = req.body.context.message_id
                       /\ StageTable(req.endpoint)[i].payload = req.body
        /\ (/\ req.endpoint \in {"search", "init", "status"}
            /\ sent # <<>>
            /\ req.body.upstream.body \in {"json", "empty"})
              => /\ resp.status_code = <<req.body.upstream.status>>
                 /\ resp.response # None

\* The forwards failed throughout: an on_select was stored, and the init
\* built from it returned the seller's answer.
C16_Witness ==
    /\ analytics = "down"
    /\ req.endpoint = "init"
    /\ sent # <<>>
    /\ resp.status = 200
    /\ resp.status_code = <<req.body.upstream.status>>
    /\ SelectSIP # <<>>

---------------------------------------------------------------------------
(* Select against stored search results.  No handler writes FullOnSearch,  *)
(* so the rows a select reads are in the store when the service starts.    *)

LumpsumCatalog ==
    Catalog(<<Provider("P1", "Fund House",
                <<Item("S1", "SCHEME", "Flexi Cap", None, {"C1"}, <<>>),
                  Item("PL1", "SCHEME_PLAN", "Direct Growth", "S1", {}, <<"F1">>)>>,
                <<Fulfillment("F1", "LUMPSUM")>>)>>,
            <<Category("C1", "P1", None, "Equity")>>)
RedemptionCatalog ==
    Catalog(<<Provider("P1", "Fund House",
                <<Item("S1", "SCHEME", "Flexi Cap", None, {"C1"}, <<>>),
                  Item("PL1", "SCHEME_PLAN", "Direct Growth", "S1", {}, <<"F1", "F3">>)>>,
                <<Fulfillment("F1", "LUMPSUM"), Fulfillment("F3", "REDEMPTION")>>)>>,
            <<Category("C1", "P1", None, "Equity")>>)
\* A row of FullOnSearch: the on_search body of a seller for a transaction.
FullOnSearchRow(t, s, catalog) ==
    [transaction |-> t, message_id |-> M1,
     payload |-> OnSearchBody(Context(M1, t, TS1, "on_search", s), catalog),
     timestamp |-> parse_datetime(TS1)[1]]

\* Transactions T1 and T2 and a search result of each seller for each are
\* stored: SIP and lumpsum offered, lumpsum only, lumpsum and redemption,
\* and a catalog without providers.
InitSelect ==
    /\ Transaction = {T1, T2}
    /\ Message = <<>>
    /\ FullOnSearch = <<FullOnSearchRow(T1, Seller1, SIPCatalog),
                        FullOnSearchRow(T1, Seller2, LumpsumCatalog),
                        FullOnSearchRow(T2, Seller1, RedemptionCatalog),
                        FullOnSearchRow(T2, Seller2, EmptyCatalog)>>
    /\ Scheme = <<>>
    /\ ONDCTransaction = <<>>
    /\ MutualFundProvider = {}
    /\ SchemeCategory = {}
    /\ MutualFundScheme = {}
    /\ SchemePlan = {}
    /\ FulfillmentOption = {}
    /\ SelectSIP = <<>>
    /\ SubmissionID = <<>>
    /\ OnInitSIP = <<>>
    /\ OnConfirm = <<>>
    /\ OnStatus = <<>>
    /\ OnUpdate = <<>>
    /\ OnCancel = <<>>
    /\ req = Request("none", NoBody)
    /\ sent = <<>>
    /\ resp = Response(200)
    /\ analytics = "up"
    /\ flow = NoFlow
    /\ pending = {}

RedemptionBody(t, m, s, pan) ==
    [transaction_id |-> t, message_id |-> m, bpp_id |-> s.bpp_id,
     bpp_uri |-> s.bpp_uri, amount |-> "3000", pan |-> pan, folio |-> "F-100"]

SelectSIPBodies ==
    {SIPBody(t, m, s, "ABCDE1234F", "monthly", d) :
        t \in {T1, T2}, s \in Sellers, m \in {M2, None}, d \in {5, NoDay}}
    \cup {SIPBody(T1, M2, s, "ABCDE1234F", f, d) :
            s \in Sellers, f \in {"monthly", "fortnightly"}, d \in {5, 30}}
RedemptionBodies ==
    {RedemptionBody(t, M2, s, pan) :
        t \in {T1, T2}, s \in Sellers, pan \in {"ABCDE1234F", None}}

NextSelect ==
    \/ \E body \in SelectSIPBodies, upstream \in {UpstreamOK, Upstream(400, "json")} :
          SIPCreationView(body, "uuid-1", Today, upstream)
    \/ \E body \in RedemptionBodies, upstream \in {UpstreamOK, Upstream(400, "json")} :
          RedemptionSelect(body, "uuid-1", upstream)

SpecSelect == InitSelect /\ [][NextSelect]_vars

\* The fulfillment type a select endpoint asks for.
preferred_type(endpoint) ==
    CASE endpoint = "sip_select" -> "SIP"
      [] endpoint = "redemption_select" -> "REDEMPTION"

\* The fulfillments the seller offers in a stored search result: those of
\* every provider of its catalog.
OfferedTypes(row) ==
    UNION {{f.type : f \in Range(provider.fulfillments)} :
              provider \in Range(row.payload.catalog.providers)}

\* C19: a select for a fulfillment type the seller does not offer in the
\* stored search result of the request's transaction and seller is answered
\* 404, sends no HTTP request and stores no Message.
C19_UnofferedFulfillmentIs404 ==
    [][(/\ req'.endpoint \in {"sip_select", "redemption_select"}
        /\ Cardinality(BySeller(FullOnSearch, req'.body.transaction_id,
                                 req'.body.bpp_id, req'.body.bpp_uri)) = 1
        /\ \A i \in BySeller(FullOnSearch, req'.body.transaction_id,
                               req'.body.bpp_id, req'.body.bpp_uri) :
              preferred_type(req'.endpoint) \notin OfferedTypes(FullOnSearch[i]))
          => /\ resp'.status = 404
             /\ sent' = <<>>
             /\ Message' = Message]_vars

\* The cadence of a SIP select is refused by build_frequency: an unknown
\* frequency keyword, or a day number the current month does not have.
InvalidCadence(body) ==
    \/ body.frequency \notin Frequencies
    \/ /\ body.date # NoDay
       /\ (body.date < 1 \/ body.date > DaysInMonth(Today[1], Today[2]))

\* C22: a SIP select with an unknown frequency keyword or a day number that
\* is impossible in the current month is answered HTTP 400, stores no
\* Message and sends nothing to the seller.
C22_InvalidCadenceIs400 ==
    [][(/\ req'.endpoint = "sip_select"
        /\ Truthy(req'.body.transaction_id)
        /\ Truthy(req'.body.bpp_id)
        /\ Truthy(req'.body.bpp_uri)
        /\ InvalidCadence(req'.body))
          => /\ resp'.status = 400
             /\ sent' = <<>>
             /\ Message' = Message]_vars

---------------------------------------------------------------------------
(* build_frequency on its own: calls with cadences of every kind, on days  *)
(* of months of 28, 29, 30 and 31 days                                     *)

FrequencyInputs ==
    {[frequency |-> f, repeat |-> r, day_number |-> d, today |-> t] :
        f \in Frequencies \cup {"fortnightly"},
        r \in {1, 6, 12},
        d \in {0, 1, 9, 10, 28, 29, 30, 31, 32},
        t \in {<<2025, 2>>, <<2024, 2>>, <<2025, 4>>, <<2025, 12>>}}

\* One call of build_frequency: req holds the arguments and the month of
\* date.today(), resp what the call returned or raised.
BuildFrequency(input) ==
    /\ req' = Request("build_frequency", input)
    /\ resp' = build_frequency(input.frequency, input.repeat, input.day_number,
                               input.today)
    /\ sent' = <<>>
    /\ UNCHANGED <<storeVars, analytics, flow, pending>>

NextFrequency == \E input \in FrequencyInputs : BuildFrequency(input)

SpecFrequency == Init /\ [][NextFrequency]_vars

\* C23: for a frequency of daily, weekly, monthly, quarterly, yearly, a
\* repeat above 0 and a day number the current month has, build_frequency
\* returns "R{repeat}/{ISO date of that day in the current month}/{duration}"
\* with duration P1D, P1W, P1M, P3M, P1Y, a function of its arguments and the
\* day; for a day number the month does not have it raises ValueError.
C23_BuildFrequencyFormat ==
    req.endpoint = "build_frequency" =>
        LET f == req.body.frequency
            r == req.body.repeat
            d == req.body.day_number
            y == req.body.today[1]
            m == req.body.today[2]
            last == IF m = 2
                    THEN (IF (y % 4 = 0 /\ y % 100 # 0) \/ y % 400 = 0 THEN 29 ELSE 28)
                    ELSE IF m \in {4, 6, 9, 11} THEN 30 ELSE 31
            duration == CASE f = "daily" -> "P1D" [] f = "weekly" -> "P1W"
                          [] f = "monthly" -> "P1M" [] f = "quarterly" -> "P3M"
                          [] f = "yearly" -> "P1Y"
            date == ToString(y) \o "-" \o (IF m < 10 THEN "0" ELSE "") \o ToString(m)
                        \o "-" \o (IF d < 10 THEN "0" ELSE "") \o ToString(d)
        IN f \in {"daily", "weekly", "monthly", "quarterly", "yearly"} /\ r > 0 =>
              IF d \in 1..last
              THEN /\ resp.raised = None
                   /\ resp.value = "R" \o ToString(r) \o "/" \o date \o "/" \o duration
              ELSE resp.raised = "ValueError"

\* A quarterly cadence on the last day of a leap February was built.
C23_Witness ==
    /\ req.endpoint = "build_frequency"
    /\ req.body.frequency = "quarterly"
    /\ req.body.today = <<2024, 2>>
    /\ req.body.day_number = 29
    /\ req.body.repeat = 6
    /\ resp.value = "R6/2024-02-29/P3M"

---------------------------------------------------------------------------
(* Lumpsum select after a search and its on_search                         *)

Cybrilla == [bpp_id |-> "api.cybrilla.com", bpp_uri |-> "https://api.cybrilla.com/ondc"]

\* Provider 32 with one LUMPSUM fulfillment 101679: with a scheme and its
\* plan, and with no item at all.
CybrillaCatalog ==
    Catalog(<<Provider("32", "Fund House",
                <<Item("S1", "SCHEME", "Flexi Cap", None, {}, <<>>),
                  Item("PL1", "SCHEME_PLAN", "Direct Growth", "S1", {}, <<"101679">>)>>,
                <<Fulfillment("101679", "LUMPSUM")>>)>>,
            <<>>)
CybrillaBareCatalog ==
    Catalog(<<Provider("32", "Fund House", <<>>, <<Fulfillment("101679", "LUMPSUM")>>)>>,
            <<>>)

\* The on_search of the seller with each catalog, and the same callback
\* with the action of another endpoint and with no action.
LumpsumOnSearchBodies ==
    {OnSearchBody(Context(M1, T1, TS1, "on_search", Cybrilla), c) :
        c \in {CybrillaCatalog, CybrillaBareCatalog}}
    \cup {OnSearchBody(Context(M1, T1, TS1, a, Cybrilla), CybrillaCatalog) :
            a \in {"on_select", None}}

LumpsumBody(t, m, s, isin, amount, pan) ==
    [transaction_id |-> t, message_id |-> m, bpp_id |-> s.bpp_id,
     bpp_uri |-> s.bpp_uri, isin |-> isin, amount |-> amount, pan |-> pan]

LumpsumBodies ==
    {LumpsumBody(t, m, s, isin, "3000", pan) :
        t \in {T1, None}, m \in {M2, None}, s \in {Cybrilla, Seller1},
        isin \in {"INF000A01010", None}, pan \in {"ABCDE1234F", None, JSONNull}}
    \cup {LumpsumBody(T1, M2, s, "INF000A01010", None, "ABCDE1234F") :
            s \in {Cybrilla, Seller1}}

NextLumpsum ==
    \/ \E m \in {M1, None} : ONDCSearchView(T1, m, "uuid-1", "uuid-2", UpstreamOK)
    \/ \E data \in LumpsumOnSearchBodies : OnSearchView(data)
    \/ \E body \in LumpsumBodies, upstream \in {UpstreamOK, Upstream(400, "json")} :
          Lumpsum(body, "uuid-3", "uuid-4", TS2, upstream)

SpecLumpsum == Init /\ [][NextLumpsum]_vars

\* The catalog tables hold fulfillment 101679, LUMPSUM, of a plan of
\* provider 32 of the seller, and the on_search that brought it was
\* acknowledged for the request's transaction.
LumpsumSearchResultStored(body) ==
    /\ SearchAcked(body)
    /\ \E o \in FulfillmentOption :
          /\ o.fulfillment_id = "101679"
          /\ o.fulfillment_type = "LUMPSUM"
          /\ o.plan.scheme.provider = [provider_id |-> "32", bpp_id |-> body.bpp_id]

\* C21: with the search result of (T1, api.cybrilla.com) stored, holding
\* provider 32 and LUMPSUM fulfillment 101679, a lumpsum select for that
\* transaction and seller with amount 3000 and PAN ABCDE1234F sends a select
\* with provider 32, fulfillment 101679 and person pan:ABCDE1234F.
C21_LumpsumSelectFromStoredSearch ==
    (/\ req.endpoint = "lumpsum_select"
     /\ req.body.transaction_id = T1
     /\ req.body.bpp_id = Cybrilla.bpp_id
     /\ req.body.bpp_uri = Cybrilla.bpp_uri
     /\ req.body.amount = "3000"
     /\ req.body.pan = "ABCDE1234F"
     /\ LumpsumSearchResultStored(req.body))
        => /\ sent # <<>>
           /\ sent[1].provider = "32"
           /\ sent[1].fulfillment = "101679"
           /\ sent[1].person = <<"pan:", "ABCDE1234F">>

---------------------------------------------------------------------------
(* Claims about on_search and the data views                               *)

\* C25: a second delivery of an on_search callback that was just
\* acknowledged (same transaction, seller and catalog) is acknowledged too,
\* and leaves the stored catalog as the first delivery left it.
C25_SecondOnSearchIsNoOp ==
    [][(/\ req.endpoint = "on_search"
        /\ resp = AckResponse(200)
        /\ req' = req)
          => /\ resp' = AckResponse(200)
             /\ catalogVars' = catalogVars]_vars

\* C26: on_search answers NACK/400 to a callback whose context.action is
\* missing or is not on_search, and stores nothing from it.
C26_OnSearchChecksAction ==
    [][(/\ req'.endpoint = "on_search"
        /\ req'.body.context.action # "on_search")
          => /\ resp' = AckResponse(400)
             /\ catalogVars' = catalogVars]_vars

\* The table a data view reads.
DataViewTable(endpoint) ==
    IF endpoint = "on_select_data" THEN SelectSIP ELSE OnInitSIP

\* C27: a data-view lookup (here on_select and on_init data, by transaction
\* and message id) that matches no stored record is answered 404, a status
\* different from the one the view gives an internal or storage failure.
C27_DataViewNotFoundIs404 ==
    (/\ req.endpoint \in {"on_select_data", "on_init_data"}
     /\ Truthy(req.body.transaction_id)
     /\ Truthy(req.body.message_id)
     /\ ByMessage(DataViewTable(req.endpoint),
                  req.body.transaction_id, req.body.message_id) = {})
        => resp.status = 404

---------------------------------------------------------------------------
(* Payment retry: on_init and on_update callbacks of two sellers and the   *)
(* update that follows them                                                *)

UPIOrder == Order("full", "P1", "pan:ABCDE1234F", "UPI_ON_DELIVERY", "ON_FULFILLMENT")

\* An on_init of each seller, a first and a second on_update of seller 1,
\* an on_update of seller 2 whose order lacks the keys the update reads, and
\* one with "fulfillments": [], which the update does not read.
RetryCallbacks ==
    {Callback(Context(M1, T1, TS1, "on_init", Seller1), FullOrder),
     Callback(Context(M1, T1, TS1, "on_init", Seller2), Seller2Order)}
UpdateCallbacks ==
    {Callback(Context(M1, T1, TS1, "on_update", Seller1), UPIOrder),
     Callback(Context(M2, T1, TS2, "on_update", Seller1), FullOrder),
     Callback(Context(M1, T1, TS1, "on_update", Seller2),
              Order("no_keys", None, None, None, None)),
     Callback(Context(M2, T1, TS2, "on_update", Seller2), UnfulfilledOrder)}

RetryBody(t, s, m) ==
    [transaction_id |-> t, bpp_id |-> s.bpp_id, bpp_uri |-> s.bpp_uri,
     message_id |-> m]
RetryBodies ==
    {RetryBody(T1, s, m) : s \in Sellers, m \in {"m9", None}}
    \cup {RetryBody(None, Seller1, "m9"), RetryBody(T2, Seller1, "m9")}

NextRetry ==
    \/ ONDCSearchView(T1, M1, "uuid-1", "uuid-2", UpstreamOK)
    \/ \E data \in RetryCallbacks : ONINIT(data)
    \/ \E data \in UpdateCallbacks : OnUpdateView(data)
    \/ \E body \in RetryBodies : LumpRetryUpdate(body, "uuid-1", UpstreamOK)
    \/ \E upstream \in {Upstream(200, "empty"), Upstream(0, "unreachable")} :
          LumpRetryUpdate(RetryBody(T1, Seller1, "m9"), "uuid-1", upstream)

SpecRetry == Init /\ [][NextRetry]_vars

\* The table a payment retry is to take its payment block from: on_update
\* when one is stored for the request's transaction and seller, else
\* on_init; and the rows of that table the request matches.
PriorPaymentTable(body) ==
    IF BySeller(OnUpdate, body.transaction_id, body.bpp_id, body.bpp_uri) # {}
    THEN OnUpdate ELSE OnInitSIP
PriorPaymentRows(body) ==
    BySeller(PriorPaymentTable(body), body.transaction_id, body.bpp_id, body.bpp_uri)

\* C28: a payment-retry update for a transaction and seller whose prior
\* record (the stored on_update, or the on_init when no on_update is
\* stored) is a single complete order sends an update whose update_target
\* is order.payments and whose one payment block is that record's.
C28_RetryUpdateCarriesPriorPayment ==
    (/\ req.endpoint = "retry_update"
     /\ Truthy(req.body.transaction_id)
     /\ Cardinality(PriorPaymentRows(req.body)) = 1
     /\ \A i \in PriorPaymentRows(req.body) :
           PriorPaymentTable(req.body)[i].payload.order.shape = "full")
        => /\ sent # <<>>
           /\ sent[1].update_target = "order.payments"
           /\ \A i \in PriorPaymentRows(req.body) :
                 sent[1].payments =
                    UpdatePayments(PriorPaymentTable(req.body)[i].payload.order)

---------------------------------------------------------------------------
(* Claims about the ids of outbound requests                               *)

\* C29: whenever an outbound endpoint (here the confirms, the payment-retry
\* confirm among them) sends a request for a caller who supplied a
\* message_id, the context.message_id of that request is the caller's; a
\* fresh id is used only when none was supplied.
C29_SuppliedMessageIdIsSent ==
    (/\ req.endpoint \in {"confirm", "lump_confirm", "existing_confirm",
                          "retry_confirm", "redemption_confirm"}
     /\ sent # <<>>)
        => sent[1].message_id =
              IF Truthy(req.body.message_id) THEN req.body.message_id ELSE "uuid-1"

---------------------------------------------------------------------------
(* The orchestrated SIP flow (completesip): one request that searches,     *)
(* selects, submits the form and waits for each callback in turn           *)

\* The default timeout of the _wait_for_* loops and the sleep between two
\* polls, in seconds; LookupDelays are the whole seconds one lookup may take
\* on top of the sleep.
timeout == 30
PollInterval == 2
LookupDelays == {0, 1}

\* The mutant of time_sleep: the loop sees no time pass.
time_sleep_NoTimePasses(elapsed, delay) == elapsed

\* time.time() - start_time after one more lookup and time.sleep(2).
time_sleep(elapsed, delay) == elapsed + PollInterval + delay

\* The wait steps, and the table each polls.
Waits == {"wait_on_search", "wait_on_select", "wait_on_init", "wait_on_confirm"}
WaitTable(pc) ==
    CASE pc = "wait_on_search" -> FullOnSearch
      [] pc = "wait_on_select" -> SelectSIP
      [] pc = "wait_on_init" -> OnInitSIP
      [] pc = "wait_on_confirm" -> OnConfirm

\* filter(transaction=...).first() on a queryset without ordering: the row
\* of the transaction with the least primary key, the one stored first.
FirstOfTransaction(table, transaction_id) ==
    {i \in ByTransaction(table, transaction_id) :
        \A j \in ByTransaction(table, transaction_id) : i <= j}

\* The flow returns: the request is answered, the thread ends.
FlowAnswer(f, status) ==
    /\ flow' = [f EXCEPT !.running = FALSE]
    /\ req' = Request("complete_sip_flow", [preferred_type |-> f.preferred_type])
    /\ sent' = f.sent
    /\ resp' = Response(status)

\* The request arrives and _execute_search runs: uuid4 gives a transaction
\* id and a message id that no stored row carries, the Transaction and the
\* Message are stored, the search is posted to the gateway.  An exception
\* (the gateway unreachable) and any status but 200 make the step fail, and
\* the flow answers 400.
FlowSearch(preferred, uuid_t, uuid_m, upstream) ==
    LET payload == Outbound("search", uuid_t, uuid_m, None, None, None)
        success == upstream.body # "unreachable" /\ upstream.status = 200
        f == [running |-> TRUE, pc |-> "wait_on_search",
              preferred_type |-> preferred, transaction_id |-> uuid_t,
              bpp_id |-> None, bpp_uri |-> None, elapsed |-> 0,
              sent |-> <<payload>>, obj |-> <<>>]
    IN
    /\ ~flow.running
    /\ uuid_t \notin Transaction
    /\ uuid_m \notin MessageIdsStored
    /\ Transaction' = Transaction \cup {uuid_t}
    /\ Message' = Append(Message, MessageRow(uuid_t, uuid_m, "search", payload))
    /\ IF success
       THEN flow' = f /\ UNCHANGED <<req, sent, resp>>
       ELSE FlowAnswer([f EXCEPT !.pc = "search"], 400)
    /\ UNCHANGED <<SubmissionID, catalogVars, stageVars, analytics, pending>>

\* The keys of payload["context"] a wait reads from the row it finds, inside
\* its try.
WaitReads(pc) ==
    CASE pc = "wait_on_search" -> {"bpp_id", "bpp_uri"}
      [] pc \in {"wait_on_select", "wait_on_init"} -> {"bpp_id", "bpp_uri", "message_id"}
      [] pc = "wait_on_confirm" -> {}

\* One turn of a _wait_for_* loop.  Past the timeout the loop ends without
\* a last lookup and the flow answers 408.  Else the first row of the
\* transaction, if there is one and its context has the keys the wait
\* reads, ends the wait: the flow goes on with the seller of that row (after
\* on_init with _execute_confirm, which sends nothing and succeeds; after
\* on_confirm with the answer 200).  Else (no row, or a KeyError the bare
\* except swallows) the thread sleeps.
FlowPoll(delay) ==
    LET table == WaitTable(flow.pc)
        rows == FirstOfTransaction(table, flow.transaction_id)
        context == table[CHOOSE i \in rows : TRUE].payload.context
        returned == /\ rows # {}
                    /\ \A key \in WaitReads(flow.pc) : context[key] # None
        seen == [flow EXCEPT !.bpp_id = context.bpp_id,
                             !.bpp_uri = context.bpp_uri,
                             !.elapsed = 0]
    IN
    /\ flow.running
    /\ flow.pc \in Waits
    /\ IF flow.elapsed >= timeout THEN FlowAnswer(flow, 408)
       ELSE IF ~returned
       THEN /\ flow' = [flow EXCEPT !.elapsed = time_sleep(flow.elapsed, delay)]
            /\ UNCHANGED <<req, sent, resp>>
       ELSE IF flow.pc = "wait_on_confirm" THEN FlowAnswer(flow, 200)
       ELSE /\ flow' = [seen EXCEPT !.pc =
                            CASE flow.pc = "wait_on_search" -> "select"
                              [] flow.pc = "wait_on_select" -> "form"
                              [] flow.pc = "wait_on_init" -> "wait_on_confirm"]
            /\ UNCHANGED <<req, sent, resp>>
    /\ UNCHANGED <<storeVars, analytics, pending>>

\* tags[0].list[0].value of a fulfillment of the catalog: None when the
\* fulfillment carries no tags.
FulfillmentFrequency(fulfillment) ==
    IF "frequency" \in DOMAIN fulfillment THEN fulfillment.frequency ELSE None

\* _execute_select: the stored on_search of the seller found, the first
\* provider's first item and its first fulfillment of the preferred type,
\* the Message stored, the select posted.  Every exception (no single
\* on_search row, no provider, no item, no tags, a message id already
\* stored, the seller unreachable) makes the step fail, as do a missing
\* fulfillment and any status but 200: the flow answers 400.
FlowSelect(uuid_m, upstream) ==
    LET t == flow.transaction_id
        found == BySeller(FullOnSearch, t, flow.bpp_id, flow.bpp_uri)
        providers == FullOnSearch[CHOOSE i \in found : TRUE].payload.catalog.providers
        matching == SelectSeq(providers[1].fulfillments,
                              LAMBDA x : x.type = flow.preferred_type)
        built == /\ Cardinality(found) = 1
                 /\ providers # <<>>
                 /\ matching # <<>>
                 /\ providers[1].items # <<>>
                 /\ FulfillmentFrequency(matching[1]) # None
        stored == built /\ uuid_m \notin MessageIdsStored
        payload == Outbound("select", t, uuid_m, flow.bpp_id, flow.bpp_uri,
                            providers[1].id)
                     @@ [item |-> providers[1].items[1].id,
                         fulfillment |-> matching[1].id,
                         person |-> <<"pan:", "arrpp7771n">>,
                         frequency |-> FulfillmentFrequency(matching[1])]
        success == stored /\ upstream.body # "unreachable" /\ upstream.status = 200
        f == [flow EXCEPT !.sent = IF stored THEN Append(@, payload) ELSE @]
    IN
    /\ flow.running
    /\ flow.pc = "select"
    /\ Message' = IF stored
                  THEN Append(Message, MessageRow(t, uuid_m, "select", payload))
                  ELSE Message
    /\ IF success
       THEN /\ flow' = [f EXCEPT !.pc = "wait_on_select", !.elapsed = 0]
            /\ UNCHANGED <<req, sent, resp>>
       ELSE FlowAnswer(f, 400)
    /\ UNCHANGED <<Transaction, SubmissionID, catalogVars, stageVars, analytics, pending>>

\* _execute_form_submission up to its post to the form URL: the single
\* on_select of the transaction and seller is read and the form URL taken
\* from it; anything that raises makes the step fail, and the flow answers
\* 400.
FlowForm ==
    LET t == flow.transaction_id
        found == BySeller(SelectSIP, t, flow.bpp_id, flow.bpp_uri)
        obj == SelectSIP[CHOOSE i \in found : TRUE]
        success == /\ Cardinality(found) = 1
                   /\ obj.payload.order.shape # "no_keys"
                   /\ obj.payload.order.form_url # None
    IN
    /\ flow.running
    /\ flow.pc = "form"
    /\ IF success
       THEN /\ flow' = [flow EXCEPT !.pc = "form_posted", !.obj = <<obj>>]
            /\ UNCHANGED <<req, sent, resp>>
       ELSE FlowAnswer(flow, 400)
    /\ UNCHANGED <<storeVars, analytics, pending>>

\* _execute_form_submission from the answer of the form URL on: with status
\* 200 and a submission id the SubmissionID is written for the transaction
\* of the on_select read before the post, and the flow goes on (its init
\* step sends nothing) to wait for on_init; otherwise the flow answers 400.
FlowFormAnswered(uuid_m, form) ==
    LET success == /\ form.body = "json"
                   /\ form.status = 200
                   /\ Truthy(form.submission_id)
    IN
    /\ flow.running
    /\ flow.pc = "form_posted"
    /\ IF success
       THEN /\ Len(SubmissionID) < MaxRows
            /\ SubmissionID' = Append(SubmissionID,
                    [transaction |-> flow.obj[1].transaction,
                     submission_id |-> form.submission_id,
                     message_id |-> uuid_m])
            /\ flow' = [flow EXCEPT !.pc = "wait_on_init", !.elapsed = 0]
            /\ UNCHANGED <<req, sent, resp>>
       ELSE /\ UNCHANGED SubmissionID
            /\ FlowAnswer(flow, 400)
    /\ UNCHANGED <<Transaction, Message, catalogVars, stageVars, analytics, pending>>

\* The ids uuid4 returns to the searches of two flows: ids that no stored
\* row carries.
FlowTransactionIds == {"uuid-t", "uuid-u"}
FlowMessageIds == {"uuid-1", "uuid-2"}
FlowUpstreams == {UpstreamOK, Upstream(400, "json"), Upstream(0, "unreachable")}
FlowForms == {FormOK, Form(200, "json", None), Form(0, "unreachable", None)}

\* The callbacks of the sellers for the transaction of the first flow: the
\* on_search the gateway relays and an on_select.
FlowSearchCallbacks ==
    {OnSearchBody(Context(M1, "uuid-t", TS1, "on_search", Seller1), SIPCatalog)}
FlowSelectCallbacks ==
    {Callback(Context(M1, "uuid-t", TS1, "on_select", Seller1), FullOrder)}

\* The steps of the flow's thread.  Those after the first wait are taken
\* only with an on_search record of the flow's transaction in FullOnSearch.
FlowThread ==
    \/ \E delay \in LookupDelays : FlowPoll(delay)
    \/ \E upstream \in FlowUpstreams : FlowSelect("uuid-3", upstream)
    \/ FlowForm
    \/ \E form \in FlowForms : FlowFormAnswered("uuid-4", form)

NextFlow ==
    \/ \E preferred \in {"SIP", "LUMPSUM"}, uuid_t \in FlowTransactionIds,
          uuid_m \in FlowMessageIds, upstream \in FlowUpstreams :
          FlowSearch(preferred, uuid_t, uuid_m, upstream)
    \/ \E delay \in LookupDelays : FlowPoll(delay)
    \/ \E data \in FlowSearchCallbacks : OnSearchView(data)
    \/ \E data \in FlowSelectCallbacks : OnSelectSIPView(data)

SpecFlow == Init /\ [][NextFlow]_vars

\* The thread of a request being handled runs on: time.sleep returns and
\* each step of the flow is taken in the end.
SpecFlowFair == SpecFlow /\ WF_vars(FlowThread)

\* The flow is inside the wait step w.
Waiting(w) == flow.running /\ flow.pc = w

\* C30: each wait-for-callback step of the orchestrated flow terminates.
\* While it waits the thread polls with at least the fixed interval between
\* two polls and only before the timeout; a wait is left in the end; and the
\* step a wait takes past its timeout is the flow answering HTTP 408.
C30_WaitsTerminateWith408 ==
    /\ \A w \in Waits : Waiting(w) ~> ~Waiting(w)
    /\ [][(flow.running /\ flow.pc \in Waits /\ flow' # flow) =>
            /\ (flow'.running /\ flow'.pc = flow.pc) =>
                  /\ flow.elapsed < timeout
                  /\ flow'.elapsed >= flow.elapsed + PollInterval
            /\ flow.elapsed >= timeout =>
                  /\ ~flow'.running
                  /\ req'.endpoint = "complete_sip_flow"
                  /\ resp'.status = 408]_vars

\* The flow has given up waiting for on_search and answered 408.
C30_Witness ==
    /\ ~flow.running
    /\ flow.pc = "wait_on_search"
    /\ flow.elapsed >= timeout
    /\ req.endpoint = "complete_sip_flow"
    /\ resp.status = 408

---------------------------------------------------------------------------
(* Claims about the records once they are written                          *)

\* Every row of the table before the step is the same row, at the same
\* place, after it.
IsPrefix(before, after) ==
    /\ Len(before) <= Len(after)
    /\ \A i \in DOMAIN before : after[i] = before[i]

\* C31: stage records, Messages and Submissions are append-only: no step of
\* any handler changes or deletes a row once written (its transaction,
\* message_id, payload, timestamp); a step only adds rows after them.
C31_RecordsAreAppendOnly ==
    [][/\ IsPrefix(Message, Message')
       /\ IsPrefix(SubmissionID, SubmissionID')
       /\ IsPrefix(SelectSIP, SelectSIP')
       /\ IsPrefix(OnInitSIP, OnInitSIP')
       /\ IsPrefix(OnConfirm, OnConfirm')
       /\ IsPrefix(OnStatus, OnStatus')
       /\ IsPrefix(OnUpdate, OnUpdate')
       /\ IsPrefix(OnCancel, OnCancel')]_vars

\* Two on_select rows, a Message and a Submission are stored, the second
\* on_select after the first.
C31_Witness ==
    /\ Len(SelectSIP) = 2
    /\ Len(Message) >= 1
    /\ Len(SubmissionID) >= 1
    /\ req.endpoint = "on_select"

\* The form vendor answered 200 with a submission_id that is not empty.
VendorAccepted(form) ==
    /\ form.status = 200
    /\ form.body = "json"
    /\ Truthy(form.submission_id)

\* C32: form submission stores a Submission, and sends the follow-up
\* select, only when the form vendor answered 200 with a non-empty
\* submission_id; the select then carries the submission_id of the
\* Submission just stored; on any other answer of the vendor no Submission
\* is stored and no select is sent.  The step in which the handler posts the
\* form and waits writes and answers nothing; the conditions are those of
\* the step in which it returns.
C32_SubmissionOnlyAfterVendorAccepted ==
    [][/\ (pending' # pending /\ pending \subseteq pending') =>
             UNCHANGED <<SubmissionID, req, sent, resp>>
       /\ (req'.endpoint \in {"form", "lumpformsub"} /\ pending' \subseteq pending) =>
             /\ (SubmissionID' # SubmissionID \/ sent' # <<>>)
                   => VendorAccepted(req'.body.form)
             /\ sent' # <<>> =>
                   /\ Len(SubmissionID') = Len(SubmissionID) + 1
                   /\ SubmissionID'[Len(SubmissionID')].submission_id
                         = sent'[1].submission_id
                   /\ sent'[1].submission_id = req'.body.form.submission_id
             /\ ~VendorAccepted(req'.body.form) =>
                   /\ SubmissionID' = SubmissionID
                   /\ sent' = <<>>]_vars

\* A form submission stored the vendor's submission id and sent it on.
C32_Witness ==
    /\ req.endpoint = "form"
    /\ VendorAccepted(req.body.form)
    /\ sent # <<>>
    /\ sent[1].submission_id = "sub-1"
    /\ SubmissionID # <<>>
    /\ SubmissionID[Len(SubmissionID)].submission_id = "sub-1"

---------------------------------------------------------------------------
(* The Message log: searches and selects, with ids that are fresh, absent  *)
(* or already stored, and a gateway that answers or cannot be reached      *)

LogIsin == "INF000A01010"

\* The database with the transaction T1, the on_search of seller 1 for it,
\* and a Scheme row of one ISIN.
InitLog ==
    /\ Transaction = {T1}
    /\ Message = <<>>
    /\ FullOnSearch = <<FullOnSearchRow(T1, Seller1, SIPCatalog)>>
    /\ Scheme = <<[isin |-> LogIsin,
                   payload |-> OnSearchBody(Context(M1, T1, TS1, "on_search", Seller1),
                                            LumpsumCatalog)]>>
    /\ ONDCTransaction = <<>>
    /\ MutualFundProvider = {}
    /\ SchemeCategory = {}
    /\ MutualFundScheme = {}
    /\ SchemePlan = {}
    /\ FulfillmentOption = {}
    /\ SelectSIP = <<>>
    /\ SubmissionID = <<>>
    /\ OnInitSIP = <<>>
    /\ OnConfirm = <<>>
    /\ OnStatus = <<>>
    /\ OnUpdate = <<>>
    /\ OnCancel = <<>>
    /\ req = Request("none", NoBody)
    /\ sent = <<>>
    /\ resp = Response(200)
    /\ analytics = "up"
    /\ flow = NoFlow
    /\ pending = {}

LogUpstreams == {UpstreamOK, Upstream(502, "json"), Upstream(0, "unreachable")}
LogSIPBodies ==
    {SIPBody(T1, m, Seller1, "ABCDE1234F", "monthly", 5) : m \in {M1, M2, None}}
LogLumpsumBodies ==
    {LumpsumBody(T1, m, Seller1, LogIsin, "3000", "ABCDE1234F") : m \in {M1, M2, None}}
    \cup {LumpsumBody(T1, M2, Seller1, LogIsin, None, None),
          LumpsumBody(T1, M2, Seller1, LogIsin, "3000", JSONNull)}

NextLog ==
    \/ \E t \in {T1, T2, None}, m \in {M1, None}, upstream \in LogUpstreams :
          ONDCSearchView(t, m, "uuid-1", "uuid-2", upstream)
    \/ \E body \in LogSIPBodies, upstream \in LogUpstreams :
          SIPCreationView(body, "uuid-5", Today, upstream)
    \/ \E body \in LogLumpsumBodies, upstream \in LogUpstreams :
          Lumpsum(body, "uuid-3", "uuid-4", TS2, upstream)
    \/ sync_existing_schemes_to_ondc

SpecLog == InitLog /\ [][NextLog]_vars

\* The send of the request failed: the gateway or the seller could not be
\* reached, or answered with an error status.
SendFailed(upstream) == upstream.body = "unreachable" \/ upstream.status # 200

\* The rows of the Message log with that message_id.
MessagesWithId(log, m) == {i \in DOMAIN log : log[i].message_id = m}

C36_EverySelectSentIsLogged ==
    (/\ req.endpoint \in {"sip_select", "lumpsum_select"}
     /\ sent # <<>>)
        => \E i \in DOMAIN Message :
              /\ Message[i].message_id = sent[1].message_id
              /\ Message[i].payload = sent[1]

\* C37: the Message log holds at most one row per message_id; a search
\* called with a message_id that is already in the log leaves the log as it
\* was (the stored Message keeps its transaction, payload and timestamp)
\* and still sends its search request to the gateway.
C37_RepeatedSearchKeepsMessage ==
    [][/\ \A i, j \in DOMAIN Message' :
             Message'[i].message_id = Message'[j].message_id => i = j
       /\ (/\ req'.endpoint = "search"
           /\ Truthy(req'.body.transaction_id)
           /\ req'.body.message_id \in MessageIdsStored)
             => /\ Message' = Message
                /\ sent' # <<>>
                /\ sent'[1].action = "search"
                /\ sent'[1].message_id = req'.body.message_id
                /\ sent'[1].transaction_id = req'.body.transaction_id]_vars

\* A search for T2 with the message_id of the stored search of T1 was sent,
\* and the Message of that id is still the one of T1.
C37_Witness ==
    /\ req.endpoint = "search"
    /\ req.body.transaction_id = T2
    /\ req.body.message_id = M1
    /\ sent # <<>>
    /\ sent[1].transaction_id = T2
    /\ \E i \in DOMAIN Message :
          Message[i].message_id = M1 /\ Message[i].transaction = T1

\* C39: a search called with a transaction_id and no message_id is sent
\* under the caller's transaction_id; only the message_id is generated.
C39_SearchKeepsTransactionId ==
    (/\ req.endpoint = "search"
     /\ Truthy(req.body.transaction_id)
     /\ ~Truthy(req.body.message_id))
        => /\ sent # <<>>
           /\ sent[1].transaction_id = req.body.transaction_id
           /\ sent[1].message_id = "uuid-2"

---------------------------------------------------------------------------
(* on_search callbacks whose catalog cannot be stored whole                *)

\* A catalog whose provider, category and scheme can be stored and whose
\* scheme plan has no name: the plan's create raises after the rows before
\* it were written.
HalfCatalog ==
    Catalog(<<Provider("P3", "Other House",
                <<Item("S3", "SCHEME", "Mid Cap", None, {"C3"}, <<>>),
                  Item("PL3", "SCHEME_PLAN", None, "S3", {}, <<"F1">>)>>,
                <<Fulfillment("F1", "SIP")>>)>>,
            <<Category("C3", "P3", None, "Debt")>>)

AtomicOnSearchBodies ==
    {OnSearchBody(Context(M1, t, TS1, "on_search", s), c) :
        t \in TransactionIds, s \in Sellers,
        c \in {SIPCatalog, HalfCatalog, NamelessCatalog}}
    \cup {OnSearchBody(Context(M1, T1, TS1, "on_search",
                               [bpp_id |-> None, bpp_uri |-> Seller1.bpp_uri]),
                       SIPCatalog)}

NextAtomic ==
    \/ \E t \in TransactionIds : ONDCSearchView(t, M1, "uuid-1", "uuid-2", UpstreamOK)
    \/ \E data \in AtomicOnSearchBodies : OnSearchView(data)

SpecAtomic == Init /\ [][NextAtomic]_vars

\* The tables on_search writes.
onSearchTables ==
    <<ONDCTransaction, MutualFundProvider, SchemeCategory, MutualFundScheme,
      SchemePlan, FulfillmentOption>>

\* The callback passes the checks of on_search and a statement of the
\* atomic block raises while its catalog is stored.
StoringFails(data) ==
    /\ ValidateOnSearch(data.context) = 200
    /\ \/ ONDCTransactionRaises(data.context)
       \/ ~UpdateProviders(data.catalog.providers, data.catalog.categories,
                           data.context.bpp_id, data.context.transaction_id,
                           CatalogTables).ok

\* C38: on_search ingestion is all-or-nothing: a callback for which storing
\* any part of the catalog fails is answered NACK/500, and no provider,
\* category, scheme, plan, fulfillment-option or ONDC-transaction row of
\* that callback is in the store afterwards; the tables are written only by
\* a callback that is acknowledged.
C38_OnSearchIsAllOrNothing ==
    [][req'.endpoint = "on_search" =>
        /\ StoringFails(req'.body) =>
              /\ resp' = AckResponse(500)
              /\ onSearchTables' = onSearchTables
        /\ resp' # AckResponse(200) => onSearchTables' = onSearchTables]_vars

\* An on_search whose plan could not be stored was answered NACK/500, and
\* neither its provider nor its ONDC transaction is in the store.
C38_Witness ==
    /\ req.endpoint = "on_search"
    /\ req.body.catalog = HalfCatalog
    /\ resp = AckResponse(500)
    /\ \A p \in MutualFundProvider : p.provider_id # "P3"
    /\ \A i \in DOMAIN ONDCTransaction :
          ONDCTransaction[i].transaction_id # req.body.context.transaction_id

---------------------------------------------------------------------------
(* Claims about the orchestrated flow's requests and records               *)

\* The requests of the given action the running flow has sent.
FlowSent(action) ==
    {i \in DOMAIN flow.sent : flow.sent[i].action = action}

\* The flow has returned HTTP 200: its request is the one answered last.
FlowSucceeded ==
    /\ ~flow.running
    /\ req.endpoint = "complete_sip_flow"
    /\ resp.status = 200

\* A record of the table is stored for the flow's transaction.
FlowRecorded(table) == ByTransaction(table, flow.transaction_id) # {}

\* No handler writes FullOnSearch and the flow's transaction id is fresh,
\* so the first wait finds no row: the flow ends in its search (400) or in
\* its wait for on_search (408), and never reports success.
FlowStaysAtFirstWait ==
    /\ flow.pc \in {"none", "search", "wait_on_search"}
    /\ ~FlowSucceeded

\* C34: the orchestrated SIP flow reports success only when on_search,
\* on_select, on_init and on_confirm records all exist in the store for its
\* transaction, each observed after the previous one: the flow goes on to
\* its select only with the on_search record stored, to the form only from
\* the wait for on_select with that record stored, to the wait for
\* on_confirm only from the wait for on_init with that record stored, and
\* answers 200 only from the wait for on_confirm with that record stored.
\* With FlowStaysAtFirstWait no step this formula speaks of is ever taken.
C34_SuccessNeedsAllFourRecords ==
    /\ [](FlowSucceeded =>
            /\ FlowRecorded(FullOnSearch)
            /\ FlowRecorded(SelectSIP)
            /\ FlowRecorded(OnInitSIP)
            /\ FlowRecorded(OnConfirm))
    /\ [][/\ (flow'.pc = "select" /\ flow.pc # "select") =>
              flow.pc = "wait_on_search" /\ FlowRecorded(FullOnSearch)
          /\ (flow'.pc = "form" /\ flow.pc # "form") =>
              flow.pc = "wait_on_select" /\ FlowRecorded(SelectSIP)
          /\ (flow'.pc = "wait_on_confirm" /\ flow.pc # "wait_on_confirm") =>
              flow.pc = "wait_on_init" /\ FlowRecorded(OnInitSIP)
          /\ (flow.running /\ ~flow'.running /\ resp'.status = 200) =>
              flow.pc = "wait_on_confirm" /\ FlowRecorded(OnConfirm)]_vars

\* C35: in the orchestrated SIP flow every wait for a callback is preceded
\* by sending the matching request: the flow waits for on_search only after
\* a search was sent, for on_select only after a select, for on_init only
\* after an init request was sent to the seller and for on_confirm only
\* after a confirm request was sent.  With FlowStaysAtFirstWait only the
\* first conjunct has a reachable case.
C35_WaitsFollowTheirRequest ==
    /\ Waiting("wait_on_search") => FlowSent("search") # {}
    /\ Waiting("wait_on_select") => FlowSent("select") # {}
    /\ Waiting("wait_on_init") => FlowSent("init") # {}
    /\ Waiting("wait_on_confirm") => FlowSent("confirm") # {}

---------------------------------------------------------------------------
(* The whole service: any request of any of the scenarios above            *)

Next ==
    \/ NextValidate
    \/ NextSearch
    \/ NextSteps
    \/ NextInit
    \/ NextStatus
    \/ NextConfirm
    \/ NextAnalytics
    \/ NextSelect
    \/ NextLumpsum
    \/ NextFrequency
    \/ NextRetry
    \/ NextFlow
    \/ FlowThread
    \/ NextLog
    \/ NextAtomic

Spec == Init /\ [][Next]_vars

====
